---------------------------- MODULE Spec2Model ----------------------------
(***************************************************************************)
(* A model of app.py, the job-search demonstration UI: the templated job   *)
(* search functions, the resume keyword/contact extractor, the SQLite      *)
(* saved-job store, and the script that Streamlit reruns top to bottom on  *)
(* every widget interaction.                                               *)
(*                                                                         *)
(* A Python string is the sequence of its characters' code points, so that *)
(* concatenation, lower(), split(), strip(), substring tests and           *)
(* regular-expression matching are computed character by character as the  *)
(* interpreter computes them, over the whole of Unicode.  A dict is a       *)
(* record; a missing key is a field outside its DOMAIN.                    *)
(***************************************************************************)
EXTENDS Integers, Sequences, FiniteSets, TLC

VARIABLES
    \* ---- the SQLite file job_search.db
    tables,           \* table name -> its column list, or <<>> while absent
    saved_jobs,       \* the rows of saved_jobs, in rowid order
    sqlite_sequence,  \* AUTOINCREMENT's record of the largest id ever used
    clock,            \* the store's clock (CURRENT_TIMESTAMP), in seconds
    \* ---- the observable outcome of the last call, and the history
    result,           \* the last call: its name, inputs and what it returned
    nSaved,           \* how many save_job calls have returned True
    \* ---- the Streamlit session: widget values and what the last run drew
    job_role, job_location, search_type, resume_input,
    screen

storeVars  == << tables, saved_jobs, sqlite_sequence, clock, nSaved >>
widgetVars == << job_role, job_location, search_type, resume_input >>
vars == << tables, saved_jobs, sqlite_sequence, clock, result, nSaved,
           job_role, job_location, search_type, resume_input,
           screen >>

(***************************************************************************)
(* Bounds of the model.                                                    *)
(***************************************************************************)
MaxRows == 3
MaxClock == 2
MaxPieces == 3


(***************************************************************************)
(* Character tables of the interpreter (CPython 3.11, Unicode 14.0).  A    *)
(* character is its code point; a table is a set of code-point ranges      *)
(* << first, last >>.                                                      *)
(***************************************************************************)
InRanges(c, table) == \E r \in table : r[1] <= c /\ c <= r[2]

\* str.isspace(): what \s matches and what split() and strip() cut at
SpaceRanges ==
    { << 9, 13 >>, << 28, 32 >>, << 133, 133 >>, << 160, 160 >>,
      << 5760, 5760 >>, << 8192, 8202 >>, << 8232, 8233 >>, << 8239, 8239 >>,
      << 8287, 8287 >>, << 12288, 12288 >> }

\* the decimal digits: what \d matches
DecimalRanges ==
    { << 48, 57 >>, << 1632, 1641 >>, << 1776, 1785 >>, << 1984, 1993 >>,
      << 2406, 2415 >>, << 2534, 2543 >>, << 2662, 2671 >>, << 2790, 2799 >>,
      << 2918, 2927 >>, << 3046, 3055 >>, << 3174, 3183 >>, << 3302, 3311 >>,
      << 3430, 3439 >>, << 3558, 3567 >>, << 3664, 3673 >>, << 3792, 3801 >>,
      << 3872, 3881 >>, << 4160, 4169 >>, << 4240, 4249 >>, << 6112, 6121 >>,
      << 6160, 6169 >>, << 6470, 6479 >>, << 6608, 6617 >>, << 6784, 6793 >>,
      << 6800, 6809 >>, << 6992, 7001 >>, << 7088, 7097 >>, << 7232, 7241 >>,
      << 7248, 7257 >>, << 42528, 42537 >>, << 43216, 43225 >>,
      << 43264, 43273 >>, << 43472, 43481 >>, << 43504, 43513 >>,
      << 43600, 43609 >>, << 44016, 44025 >>, << 65296, 65305 >>,
      << 66720, 66729 >>, << 68912, 68921 >>, << 69734, 69743 >>,
      << 69872, 69881 >>, << 69942, 69951 >>, << 70096, 70105 >>,
      << 70384, 70393 >>, << 70736, 70745 >>, << 70864, 70873 >>,
      << 71248, 71257 >>, << 71360, 71369 >>, << 71472, 71481 >>,
      << 71904, 71913 >>, << 72016, 72025 >>, << 72784, 72793 >>,
      << 73040, 73049 >>, << 73120, 73129 >>, << 92768, 92777 >>,
      << 92864, 92873 >>, << 93008, 93017 >>, << 120782, 120831 >>,
      << 123200, 123209 >>, << 123632, 123641 >>, << 125264, 125273 >>,
      << 130032, 130041 >> }

\* the alphanumerics and the underscore: what \w matches, which decides \b
WordRanges ==
    { << 48, 57 >>, << 65, 90 >>, << 95, 95 >>, << 97, 122 >>,
      << 170, 170 >>, << 178, 179 >>, << 181, 181 >>, << 185, 186 >>,
      << 188, 190 >>, << 192, 214 >>, << 216, 246 >>, << 248, 705 >>,
      << 710, 721 >>, << 736, 740 >>, << 748, 748 >>, << 750, 750 >>,
      << 880, 884 >>, << 886, 887 >>, << 890, 893 >>, << 895, 895 >>,
      << 902, 902 >>, << 904, 906 >>, << 908, 908 >>, << 910, 929 >>,
      << 931, 1013 >>, << 1015, 1153 >>, << 1162, 1327 >>, << 1329, 1366 >>,
      << 1369, 1369 >>, << 1376, 1416 >>, << 1488, 1514 >>, << 1519, 1522 >>,
      << 1568, 1610 >>, << 1632, 1641 >>, << 1646, 1647 >>, << 1649, 1747 >>,
      << 1749, 1749 >>, << 1765, 1766 >>, << 1774, 1788 >>, << 1791, 1791 >>,
      << 1808, 1808 >>, << 1810, 1839 >>, << 1869, 1957 >>, << 1969, 1969 >>,
      << 1984, 2026 >>, << 2036, 2037 >>, << 2042, 2042 >>, << 2048, 2069 >>,
      << 2074, 2074 >>, << 2084, 2084 >>, << 2088, 2088 >>, << 2112, 2136 >>,
      << 2144, 2154 >>, << 2160, 2183 >>, << 2185, 2190 >>, << 2208, 2249 >>,
      << 2308, 2361 >>, << 2365, 2365 >>, << 2384, 2384 >>, << 2392, 2401 >>,
      << 2406, 2415 >>, << 2417, 2432 >>, << 2437, 2444 >>, << 2447, 2448 >>,
      << 2451, 2472 >>, << 2474, 2480 >>, << 2482, 2482 >>, << 2486, 2489 >>,
      << 2493, 2493 >>, << 2510, 2510 >>, << 2524, 2525 >>, << 2527, 2529 >>,
      << 2534, 2545 >>, << 2548, 2553 >>, << 2556, 2556 >>, << 2565, 2570 >>,
      << 2575, 2576 >>, << 2579, 2600 >>, << 2602, 2608 >>, << 2610, 2611 >>,
      << 2613, 2614 >>, << 2616, 2617 >>, << 2649, 2652 >>, << 2654, 2654 >>,
      << 2662, 2671 >>, << 2674, 2676 >>, << 2693, 2701 >>, << 2703, 2705 >>,
      << 2707, 2728 >>, << 2730, 2736 >>, << 2738, 2739 >>, << 2741, 2745 >>,
      << 2749, 2749 >>, << 2768, 2768 >>, << 2784, 2785 >>, << 2790, 2799 >>,
      << 2809, 2809 >>, << 2821, 2828 >>, << 2831, 2832 >>, << 2835, 2856 >>,
      << 2858, 2864 >>, << 2866, 2867 >>, << 2869, 2873 >>, << 2877, 2877 >>,
      << 2908, 2909 >>, << 2911, 2913 >>, << 2918, 2927 >>, << 2929, 2935 >>,
      << 2947, 2947 >>, << 2949, 2954 >>, << 2958, 2960 >>, << 2962, 2965 >>,
      << 2969, 2970 >>, << 2972, 2972 >>, << 2974, 2975 >>, << 2979, 2980 >>,
      << 2984, 2986 >>, << 2990, 3001 >>, << 3024, 3024 >>, << 3046, 3058 >>,
      << 3077, 3084 >>, << 3086, 3088 >>, << 3090, 3112 >>, << 3114, 3129 >>,
      << 3133, 3133 >>, << 3160, 3162 >>, << 3165, 3165 >>, << 3168, 3169 >>,
      << 3174, 3183 >>, << 3192, 3198 >>, << 3200, 3200 >>, << 3205, 3212 >>,
      << 3214, 3216 >>, << 3218, 3240 >>, << 3242, 3251 >>, << 3253, 3257 >>,
      << 3261, 3261 >>, << 3293, 3294 >>, << 3296, 3297 >>, << 3302, 3311 >>,
      << 3313, 3314 >>, << 3332, 3340 >>, << 3342, 3344 >>, << 3346, 3386 >>,
      << 3389, 3389 >>, << 3406, 3406 >>, << 3412, 3414 >>, << 3416, 3425 >>,
      << 3430, 3448 >>, << 3450, 3455 >>, << 3461, 3478 >>, << 3482, 3505 >>,
      << 3507, 3515 >>, << 3517, 3517 >>, << 3520, 3526 >>, << 3558, 3567 >>,
      << 3585, 3632 >>, << 3634, 3635 >>, << 3648, 3654 >>, << 3664, 3673 >>,
      << 3713, 3714 >>, << 3716, 3716 >>, << 3718, 3722 >>, << 3724, 3747 >>,
      << 3749, 3749 >>, << 3751, 3760 >>, << 3762, 3763 >>, << 3773, 3773 >>,
      << 3776, 3780 >>, << 3782, 3782 >>, << 3792, 3801 >>, << 3804, 3807 >>,
      << 3840, 3840 >>, << 3872, 3891 >>, << 3904, 3911 >>, << 3913, 3948 >>,
      << 3976, 3980 >>, << 4096, 4138 >>, << 4159, 4169 >>, << 4176, 4181 >>,
      << 4186, 4189 >>, << 4193, 4193 >>, << 4197, 4198 >>, << 4206, 4208 >>,
      << 4213, 4225 >>, << 4238, 4238 >>, << 4240, 4249 >>, << 4256, 4293 >>,
      << 4295, 4295 >>, << 4301, 4301 >>, << 4304, 4346 >>, << 4348, 4680 >>,
      << 4682, 4685 >>, << 4688, 4694 >>, << 4696, 4696 >>, << 4698, 4701 >>,
      << 4704, 4744 >>, << 4746, 4749 >>, << 4752, 4784 >>, << 4786, 4789 >>,
      << 4792, 4798 >>, << 4800, 4800 >>, << 4802, 4805 >>, << 4808, 4822 >>,
      << 4824, 4880 >>, << 4882, 4885 >>, << 4888, 4954 >>, << 4969, 4988 >>,
      << 4992, 5007 >>, << 5024, 5109 >>, << 5112, 5117 >>, << 5121, 5740 >>,
      << 5743, 5759 >>, << 5761, 5786 >>, << 5792, 5866 >>, << 5870, 5880 >>,
      << 5888, 5905 >>, << 5919, 5937 >>, << 5952, 5969 >>, << 5984, 5996 >>,
      << 5998, 6000 >>, << 6016, 6067 >>, << 6103, 6103 >>, << 6108, 6108 >>,
      << 6112, 6121 >>, << 6128, 6137 >>, << 6160, 6169 >>, << 6176, 6264 >>,
      << 6272, 6276 >>, << 6279, 6312 >>, << 6314, 6314 >>, << 6320, 6389 >>,
      << 6400, 6430 >>, << 6470, 6509 >>, << 6512, 6516 >>, << 6528, 6571 >>,
      << 6576, 6601 >>, << 6608, 6618 >>, << 6656, 6678 >>, << 6688, 6740 >>,
      << 6784, 6793 >>, << 6800, 6809 >>, << 6823, 6823 >>, << 6917, 6963 >>,
      << 6981, 6988 >>, << 6992, 7001 >>, << 7043, 7072 >>, << 7086, 7141 >>,
      << 7168, 7203 >>, << 7232, 7241 >>, << 7245, 7293 >>, << 7296, 7304 >>,
      << 7312, 7354 >>, << 7357, 7359 >>, << 7401, 7404 >>, << 7406, 7411 >>,
      << 7413, 7414 >>, << 7418, 7418 >>, << 7424, 7615 >>, << 7680, 7957 >>,
      << 7960, 7965 >>, << 7968, 8005 >>, << 8008, 8013 >>, << 8016, 8023 >>,
      << 8025, 8025 >>, << 8027, 8027 >>, << 8029, 8029 >>, << 8031, 8061 >>,
      << 8064, 8116 >>, << 8118, 8124 >>, << 8126, 8126 >>, << 8130, 8132 >>,
      << 8134, 8140 >>, << 8144, 8147 >>, << 8150, 8155 >>, << 8160, 8172 >>,
      << 8178, 8180 >>, << 8182, 8188 >>, << 8304, 8305 >>, << 8308, 8313 >>,
      << 8319, 8329 >>, << 8336, 8348 >>, << 8450, 8450 >>, << 8455, 8455 >>,
      << 8458, 8467 >>, << 8469, 8469 >>, << 8473, 8477 >>, << 8484, 8484 >>,
      << 8486, 8486 >>, << 8488, 8488 >>, << 8490, 8493 >>, << 8495, 8505 >>,
      << 8508, 8511 >>, << 8517, 8521 >>, << 8526, 8526 >>, << 8528, 8585 >>,
      << 9312, 9371 >>, << 9450, 9471 >>, << 10102, 10131 >>,
      << 11264, 11492 >>, << 11499, 11502 >>, << 11506, 11507 >>,
      << 11517, 11517 >>, << 11520, 11557 >>, << 11559, 11559 >>,
      << 11565, 11565 >>, << 11568, 11623 >>, << 11631, 11631 >>,
      << 11648, 11670 >>, << 11680, 11686 >>, << 11688, 11694 >>,
      << 11696, 11702 >>, << 11704, 11710 >>, << 11712, 11718 >>,
      << 11720, 11726 >>, << 11728, 11734 >>, << 11736, 11742 >>,
      << 11823, 11823 >>, << 12293, 12295 >>, << 12321, 12329 >>,
      << 12337, 12341 >>, << 12344, 12348 >>, << 12353, 12438 >>,
      << 12445, 12447 >>, << 12449, 12538 >>, << 12540, 12543 >>,
      << 12549, 12591 >>, << 12593, 12686 >>, << 12690, 12693 >>,
      << 12704, 12735 >>, << 12784, 12799 >>, << 12832, 12841 >>,
      << 12872, 12879 >>, << 12881, 12895 >>, << 12928, 12937 >>,
      << 12977, 12991 >>, << 13312, 19903 >>, << 19968, 42124 >>,
      << 42192, 42237 >>, << 42240, 42508 >>, << 42512, 42539 >>,
      << 42560, 42606 >>, << 42623, 42653 >>, << 42656, 42735 >>,
      << 42775, 42783 >>, << 42786, 42888 >>, << 42891, 42954 >>,
      << 42960, 42961 >>, << 42963, 42963 >>, << 42965, 42969 >>,
      << 42994, 43009 >>, << 43011, 43013 >>, << 43015, 43018 >>,
      << 43020, 43042 >>, << 43056, 43061 >>, << 43072, 43123 >>,
      << 43138, 43187 >>, << 43216, 43225 >>, << 43250, 43255 >>,
      << 43259, 43259 >>, << 43261, 43262 >>, << 43264, 43301 >>,
      << 43312, 43334 >>, << 43360, 43388 >>, << 43396, 43442 >>,
      << 43471, 43481 >>, << 43488, 43492 >>, << 43494, 43518 >>,
      << 43520, 43560 >>, << 43584, 43586 >>, << 43588, 43595 >>,
      << 43600, 43609 >>, << 43616, 43638 >>, << 43642, 43642 >>,
      << 43646, 43695 >>, << 43697, 43697 >>, << 43701, 43702 >>,
      << 43705, 43709 >>, << 43712, 43712 >>, << 43714, 43714 >>,
      << 43739, 43741 >>, << 43744, 43754 >>, << 43762, 43764 >>,
      << 43777, 43782 >>, << 43785, 43790 >>, << 43793, 43798 >>,
      << 43808, 43814 >>, << 43816, 43822 >>, << 43824, 43866 >>,
      << 43868, 43881 >>, << 43888, 44002 >>, << 44016, 44025 >>,
      << 44032, 55203 >>, << 55216, 55238 >>, << 55243, 55291 >>,
      << 63744, 64109 >>, << 64112, 64217 >>, << 64256, 64262 >>,
      << 64275, 64279 >>, << 64285, 64285 >>, << 64287, 64296 >>,
      << 64298, 64310 >>, << 64312, 64316 >>, << 64318, 64318 >>,
      << 64320, 64321 >>, << 64323, 64324 >>, << 64326, 64433 >>,
      << 64467, 64829 >>, << 64848, 64911 >>, << 64914, 64967 >>,
      << 65008, 65019 >>, << 65136, 65140 >>, << 65142, 65276 >>,
      << 65296, 65305 >>, << 65313, 65338 >>, << 65345, 65370 >>,
      << 65382, 65470 >>, << 65474, 65479 >>, << 65482, 65487 >>,
      << 65490, 65495 >>, << 65498, 65500 >>, << 65536, 65547 >>,
      << 65549, 65574 >>, << 65576, 65594 >>, << 65596, 65597 >>,
      << 65599, 65613 >>, << 65616, 65629 >>, << 65664, 65786 >>,
      << 65799, 65843 >>, << 65856, 65912 >>, << 65930, 65931 >>,
      << 66176, 66204 >>, << 66208, 66256 >>, << 66273, 66299 >>,
      << 66304, 66339 >>, << 66349, 66378 >>, << 66384, 66421 >>,
      << 66432, 66461 >>, << 66464, 66499 >>, << 66504, 66511 >>,
      << 66513, 66517 >>, << 66560, 66717 >>, << 66720, 66729 >>,
      << 66736, 66771 >>, << 66776, 66811 >>, << 66816, 66855 >>,
      << 66864, 66915 >>, << 66928, 66938 >>, << 66940, 66954 >>,
      << 66956, 66962 >>, << 66964, 66965 >>, << 66967, 66977 >>,
      << 66979, 66993 >>, << 66995, 67001 >>, << 67003, 67004 >>,
      << 67072, 67382 >>, << 67392, 67413 >>, << 67424, 67431 >>,
      << 67456, 67461 >>, << 67463, 67504 >>, << 67506, 67514 >>,
      << 67584, 67589 >>, << 67592, 67592 >>, << 67594, 67637 >>,
      << 67639, 67640 >>, << 67644, 67644 >>, << 67647, 67669 >>,
      << 67672, 67702 >>, << 67705, 67742 >>, << 67751, 67759 >>,
      << 67808, 67826 >>, << 67828, 67829 >>, << 67835, 67867 >>,
      << 67872, 67897 >>, << 67968, 68023 >>, << 68028, 68047 >>,
      << 68050, 68096 >>, << 68112, 68115 >>, << 68117, 68119 >>,
      << 68121, 68149 >>, << 68160, 68168 >>, << 68192, 68222 >>,
      << 68224, 68255 >>, << 68288, 68295 >>, << 68297, 68324 >>,
      << 68331, 68335 >>, << 68352, 68405 >>, << 68416, 68437 >>,
      << 68440, 68466 >>, << 68472, 68497 >>, << 68521, 68527 >>,
      << 68608, 68680 >>, << 68736, 68786 >>, << 68800, 68850 >>,
      << 68858, 68899 >>, << 68912, 68921 >>, << 69216, 69246 >>,
      << 69248, 69289 >>, << 69296, 69297 >>, << 69376, 69415 >>,
      << 69424, 69445 >>, << 69457, 69460 >>, << 69488, 69505 >>,
      << 69552, 69579 >>, << 69600, 69622 >>, << 69635, 69687 >>,
      << 69714, 69743 >>, << 69745, 69746 >>, << 69749, 69749 >>,
      << 69763, 69807 >>, << 69840, 69864 >>, << 69872, 69881 >>,
      << 69891, 69926 >>, << 69942, 69951 >>, << 69956, 69956 >>,
      << 69959, 69959 >>, << 69968, 70002 >>, << 70006, 70006 >>,
      << 70019, 70066 >>, << 70081, 70084 >>, << 70096, 70106 >>,
      << 70108, 70108 >>, << 70113, 70132 >>, << 70144, 70161 >>,
      << 70163, 70187 >>, << 70272, 70278 >>, << 70280, 70280 >>,
      << 70282, 70285 >>, << 70287, 70301 >>, << 70303, 70312 >>,
      << 70320, 70366 >>, << 70384, 70393 >>, << 70405, 70412 >>,
      << 70415, 70416 >>, << 70419, 70440 >>, << 70442, 70448 >>,
      << 70450, 70451 >>, << 70453, 70457 >>, << 70461, 70461 >>,
      << 70480, 70480 >>, << 70493, 70497 >>, << 70656, 70708 >>,
      << 70727, 70730 >>, << 70736, 70745 >>, << 70751, 70753 >>,
      << 70784, 70831 >>, << 70852, 70853 >>, << 70855, 70855 >>,
      << 70864, 70873 >>, << 71040, 71086 >>, << 71128, 71131 >>,
      << 71168, 71215 >>, << 71236, 71236 >>, << 71248, 71257 >>,
      << 71296, 71338 >>, << 71352, 71352 >>, << 71360, 71369 >>,
      << 71424, 71450 >>, << 71472, 71483 >>, << 71488, 71494 >>,
      << 71680, 71723 >>, << 71840, 71922 >>, << 71935, 71942 >>,
      << 71945, 71945 >>, << 71948, 71955 >>, << 71957, 71958 >>,
      << 71960, 71983 >>, << 71999, 71999 >>, << 72001, 72001 >>,
      << 72016, 72025 >>, << 72096, 72103 >>, << 72106, 72144 >>,
      << 72161, 72161 >>, << 72163, 72163 >>, << 72192, 72192 >>,
      << 72203, 72242 >>, << 72250, 72250 >>, << 72272, 72272 >>,
      << 72284, 72329 >>, << 72349, 72349 >>, << 72368, 72440 >>,
      << 72704, 72712 >>, << 72714, 72750 >>, << 72768, 72768 >>,
      << 72784, 72812 >>, << 72818, 72847 >>, << 72960, 72966 >>,
      << 72968, 72969 >>, << 72971, 73008 >>, << 73030, 73030 >>,
      << 73040, 73049 >>, << 73056, 73061 >>, << 73063, 73064 >>,
      << 73066, 73097 >>, << 73112, 73112 >>, << 73120, 73129 >>,
      << 73440, 73458 >>, << 73648, 73648 >>, << 73664, 73684 >>,
      << 73728, 74649 >>, << 74752, 74862 >>, << 74880, 75075 >>,
      << 77712, 77808 >>, << 77824, 78894 >>, << 82944, 83526 >>,
      << 92160, 92728 >>, << 92736, 92766 >>, << 92768, 92777 >>,
      << 92784, 92862 >>, << 92864, 92873 >>, << 92880, 92909 >>,
      << 92928, 92975 >>, << 92992, 92995 >>, << 93008, 93017 >>,
      << 93019, 93025 >>, << 93027, 93047 >>, << 93053, 93071 >>,
      << 93760, 93846 >>, << 93952, 94026 >>, << 94032, 94032 >>,
      << 94099, 94111 >>, << 94176, 94177 >>, << 94179, 94179 >>,
      << 94208, 100343 >>, << 100352, 101589 >>, << 101632, 101640 >>,
      << 110576, 110579 >>, << 110581, 110587 >>, << 110589, 110590 >>,
      << 110592, 110882 >>, << 110928, 110930 >>, << 110948, 110951 >>,
      << 110960, 111355 >>, << 113664, 113770 >>, << 113776, 113788 >>,
      << 113792, 113800 >>, << 113808, 113817 >>, << 119520, 119539 >>,
      << 119648, 119672 >>, << 119808, 119892 >>, << 119894, 119964 >>,
      << 119966, 119967 >>, << 119970, 119970 >>, << 119973, 119974 >>,
      << 119977, 119980 >>, << 119982, 119993 >>, << 119995, 119995 >>,
      << 119997, 120003 >>, << 120005, 120069 >>, << 120071, 120074 >>,
      << 120077, 120084 >>, << 120086, 120092 >>, << 120094, 120121 >>,
      << 120123, 120126 >>, << 120128, 120132 >>, << 120134, 120134 >>,
      << 120138, 120144 >>, << 120146, 120485 >>, << 120488, 120512 >>,
      << 120514, 120538 >>, << 120540, 120570 >>, << 120572, 120596 >>,
      << 120598, 120628 >>, << 120630, 120654 >>, << 120656, 120686 >>,
      << 120688, 120712 >>, << 120714, 120744 >>, << 120746, 120770 >>,
      << 120772, 120779 >>, << 120782, 120831 >>, << 122624, 122654 >>,
      << 123136, 123180 >>, << 123191, 123197 >>, << 123200, 123209 >>,
      << 123214, 123214 >>, << 123536, 123565 >>, << 123584, 123627 >>,
      << 123632, 123641 >>, << 124896, 124902 >>, << 124904, 124907 >>,
      << 124909, 124910 >>, << 124912, 124926 >>, << 124928, 125124 >>,
      << 125127, 125135 >>, << 125184, 125251 >>, << 125259, 125259 >>,
      << 125264, 125273 >>, << 126065, 126123 >>, << 126125, 126127 >>,
      << 126129, 126132 >>, << 126209, 126253 >>, << 126255, 126269 >>,
      << 126464, 126467 >>, << 126469, 126495 >>, << 126497, 126498 >>,
      << 126500, 126500 >>, << 126503, 126503 >>, << 126505, 126514 >>,
      << 126516, 126519 >>, << 126521, 126521 >>, << 126523, 126523 >>,
      << 126530, 126530 >>, << 126535, 126535 >>, << 126537, 126537 >>,
      << 126539, 126539 >>, << 126541, 126543 >>, << 126545, 126546 >>,
      << 126548, 126548 >>, << 126551, 126551 >>, << 126553, 126553 >>,
      << 126555, 126555 >>, << 126557, 126557 >>, << 126559, 126559 >>,
      << 126561, 126562 >>, << 126564, 126564 >>, << 126567, 126570 >>,
      << 126572, 126578 >>, << 126580, 126583 >>, << 126585, 126588 >>,
      << 126590, 126590 >>, << 126592, 126601 >>, << 126603, 126619 >>,
      << 126625, 126627 >>, << 126629, 126633 >>, << 126635, 126651 >>,
      << 127232, 127244 >>, << 130032, 130041 >>, << 131072, 173791 >>,
      << 173824, 177976 >>, << 177984, 178205 >>, << 178208, 183969 >>,
      << 183984, 191456 >>, << 194560, 195101 >>, << 196608, 201546 >> }

\* str.lower() of one character, where it is one other character: the
\* characters first, first + step, ..., last are mapped to themselves + delta;
\* rows are << first, last, step, delta >>
LowerRuns ==
    { << 65, 90, 1, 32 >>, << 192, 214, 1, 32 >>, << 216, 222, 1, 32 >>,
      << 256, 302, 2, 1 >>, << 306, 310, 2, 1 >>, << 313, 327, 2, 1 >>,
      << 330, 374, 2, 1 >>, << 376, 376, 1, -121 >>, << 377, 381, 2, 1 >>,
      << 385, 385, 1, 210 >>, << 386, 388, 2, 1 >>, << 390, 390, 1, 206 >>,
      << 391, 391, 1, 1 >>, << 393, 394, 1, 205 >>, << 395, 395, 1, 1 >>,
      << 398, 398, 1, 79 >>, << 399, 399, 1, 202 >>, << 400, 400, 1, 203 >>,
      << 401, 401, 1, 1 >>, << 403, 403, 1, 205 >>, << 404, 404, 1, 207 >>,
      << 406, 406, 1, 211 >>, << 407, 407, 1, 209 >>, << 408, 408, 1, 1 >>,
      << 412, 412, 1, 211 >>, << 413, 413, 1, 213 >>, << 415, 415, 1, 214 >>,
      << 416, 420, 2, 1 >>, << 422, 422, 1, 218 >>, << 423, 423, 1, 1 >>,
      << 425, 425, 1, 218 >>, << 428, 428, 1, 1 >>, << 430, 430, 1, 218 >>,
      << 431, 431, 1, 1 >>, << 433, 434, 1, 217 >>, << 435, 437, 2, 1 >>,
      << 439, 439, 1, 219 >>, << 440, 440, 1, 1 >>, << 444, 444, 1, 1 >>,
      << 452, 452, 1, 2 >>, << 453, 453, 1, 1 >>, << 455, 455, 1, 2 >>,
      << 456, 456, 1, 1 >>, << 458, 458, 1, 2 >>, << 459, 475, 2, 1 >>,
      << 478, 494, 2, 1 >>, << 497, 497, 1, 2 >>, << 498, 500, 2, 1 >>,
      << 502, 502, 1, -97 >>, << 503, 503, 1, -56 >>, << 504, 542, 2, 1 >>,
      << 544, 544, 1, -130 >>, << 546, 562, 2, 1 >>,
      << 570, 570, 1, 10795 >>, << 571, 571, 1, 1 >>,
      << 573, 573, 1, -163 >>, << 574, 574, 1, 10792 >>,
      << 577, 577, 1, 1 >>, << 579, 579, 1, -195 >>, << 580, 580, 1, 69 >>,
      << 581, 581, 1, 71 >>, << 582, 590, 2, 1 >>, << 880, 882, 2, 1 >>,
      << 886, 886, 1, 1 >>, << 895, 895, 1, 116 >>, << 902, 902, 1, 38 >>,
      << 904, 906, 1, 37 >>, << 908, 908, 1, 64 >>, << 910, 911, 1, 63 >>,
      << 913, 929, 1, 32 >>, << 931, 939, 1, 32 >>, << 975, 975, 1, 8 >>,
      << 984, 1006, 2, 1 >>, << 1012, 1012, 1, -60 >>,
      << 1015, 1015, 1, 1 >>, << 1017, 1017, 1, -7 >>,
      << 1018, 1018, 1, 1 >>, << 1021, 1023, 1, -130 >>,
      << 1024, 1039, 1, 80 >>, << 1040, 1071, 1, 32 >>,
      << 1120, 1152, 2, 1 >>, << 1162, 1214, 2, 1 >>,
      << 1216, 1216, 1, 15 >>, << 1217, 1229, 2, 1 >>,
      << 1232, 1326, 2, 1 >>, << 1329, 1366, 1, 48 >>,
      << 4256, 4293, 1, 7264 >>, << 4295, 4295, 1, 7264 >>,
      << 4301, 4301, 1, 7264 >>, << 5024, 5103, 1, 38864 >>,
      << 5104, 5109, 1, 8 >>, << 7312, 7354, 1, -3008 >>,
      << 7357, 7359, 1, -3008 >>, << 7680, 7828, 2, 1 >>,
      << 7838, 7838, 1, -7615 >>, << 7840, 7934, 2, 1 >>,
      << 7944, 7951, 1, -8 >>, << 7960, 7965, 1, -8 >>,
      << 7976, 7983, 1, -8 >>, << 7992, 7999, 1, -8 >>,
      << 8008, 8013, 1, -8 >>, << 8025, 8031, 2, -8 >>,
      << 8040, 8047, 1, -8 >>, << 8072, 8079, 1, -8 >>,
      << 8088, 8095, 1, -8 >>, << 8104, 8111, 1, -8 >>,
      << 8120, 8121, 1, -8 >>, << 8122, 8123, 1, -74 >>,
      << 8124, 8124, 1, -9 >>, << 8136, 8139, 1, -86 >>,
      << 8140, 8140, 1, -9 >>, << 8152, 8153, 1, -8 >>,
      << 8154, 8155, 1, -100 >>, << 8168, 8169, 1, -8 >>,
      << 8170, 8171, 1, -112 >>, << 8172, 8172, 1, -7 >>,
      << 8184, 8185, 1, -128 >>, << 8186, 8187, 1, -126 >>,
      << 8188, 8188, 1, -9 >>, << 8486, 8486, 1, -7517 >>,
      << 8490, 8490, 1, -8383 >>, << 8491, 8491, 1, -8262 >>,
      << 8498, 8498, 1, 28 >>, << 8544, 8559, 1, 16 >>,
      << 8579, 8579, 1, 1 >>, << 9398, 9423, 1, 26 >>,
      << 11264, 11311, 1, 48 >>, << 11360, 11360, 1, 1 >>,
      << 11362, 11362, 1, -10743 >>, << 11363, 11363, 1, -3814 >>,
      << 11364, 11364, 1, -10727 >>, << 11367, 11371, 2, 1 >>,
      << 11373, 11373, 1, -10780 >>, << 11374, 11374, 1, -10749 >>,
      << 11375, 11375, 1, -10783 >>, << 11376, 11376, 1, -10782 >>,
      << 11378, 11378, 1, 1 >>, << 11381, 11381, 1, 1 >>,
      << 11390, 11391, 1, -10815 >>, << 11392, 11490, 2, 1 >>,
      << 11499, 11501, 2, 1 >>, << 11506, 11506, 1, 1 >>,
      << 42560, 42604, 2, 1 >>, << 42624, 42650, 2, 1 >>,
      << 42786, 42798, 2, 1 >>, << 42802, 42862, 2, 1 >>,
      << 42873, 42875, 2, 1 >>, << 42877, 42877, 1, -35332 >>,
      << 42878, 42886, 2, 1 >>, << 42891, 42891, 1, 1 >>,
      << 42893, 42893, 1, -42280 >>, << 42896, 42898, 2, 1 >>,
      << 42902, 42920, 2, 1 >>, << 42922, 42922, 1, -42308 >>,
      << 42923, 42923, 1, -42319 >>, << 42924, 42924, 1, -42315 >>,
      << 42925, 42925, 1, -42305 >>, << 42926, 42926, 1, -42308 >>,
      << 42928, 42928, 1, -42258 >>, << 42929, 42929, 1, -42282 >>,
      << 42930, 42930, 1, -42261 >>, << 42931, 42931, 1, 928 >>,
      << 42932, 42946, 2, 1 >>, << 42948, 42948, 1, -48 >>,
      << 42949, 42949, 1, -42307 >>, << 42950, 42950, 1, -35384 >>,
      << 42951, 42953, 2, 1 >>, << 42960, 42960, 1, 1 >>,
      << 42966, 42968, 2, 1 >>, << 42997, 42997, 1, 1 >>,
      << 65313, 65338, 1, 32 >>, << 66560, 66599, 1, 40 >>,
      << 66736, 66771, 1, 40 >>, << 66928, 66938, 1, 39 >>,
      << 66940, 66954, 1, 39 >>, << 66956, 66962, 1, 39 >>,
      << 66964, 66965, 1, 39 >>, << 68736, 68786, 1, 64 >>,
      << 71840, 71871, 1, 32 >>, << 93760, 93791, 1, 32 >>,
      << 125184, 125217, 1, 34 >> }

\* the case-ignorable characters, which lower() skips when it looks for the
\* cased letters around a capital sigma
CaseIgnorableRanges ==
    { << 39, 39 >>, << 46, 46 >>, << 58, 58 >>, << 94, 94 >>, << 96, 96 >>,
      << 168, 168 >>, << 173, 173 >>, << 175, 175 >>, << 180, 180 >>,
      << 183, 184 >>, << 688, 879 >>, << 884, 885 >>, << 890, 890 >>,
      << 900, 901 >>, << 903, 903 >>, << 1155, 1161 >>, << 1369, 1369 >>,
      << 1375, 1375 >>, << 1425, 1469 >>, << 1471, 1471 >>, << 1473, 1474 >>,
      << 1476, 1477 >>, << 1479, 1479 >>, << 1524, 1524 >>, << 1536, 1541 >>,
      << 1552, 1562 >>, << 1564, 1564 >>, << 1600, 1600 >>, << 1611, 1631 >>,
      << 1648, 1648 >>, << 1750, 1757 >>, << 1759, 1768 >>, << 1770, 1773 >>,
      << 1807, 1807 >>, << 1809, 1809 >>, << 1840, 1866 >>, << 1958, 1968 >>,
      << 2027, 2037 >>, << 2042, 2042 >>, << 2045, 2045 >>, << 2070, 2093 >>,
      << 2137, 2139 >>, << 2184, 2184 >>, << 2192, 2193 >>, << 2200, 2207 >>,
      << 2249, 2306 >>, << 2362, 2362 >>, << 2364, 2364 >>, << 2369, 2376 >>,
      << 2381, 2381 >>, << 2385, 2391 >>, << 2402, 2403 >>, << 2417, 2417 >>,
      << 2433, 2433 >>, << 2492, 2492 >>, << 2497, 2500 >>, << 2509, 2509 >>,
      << 2530, 2531 >>, << 2558, 2558 >>, << 2561, 2562 >>, << 2620, 2620 >>,
      << 2625, 2626 >>, << 2631, 2632 >>, << 2635, 2637 >>, << 2641, 2641 >>,
      << 2672, 2673 >>, << 2677, 2677 >>, << 2689, 2690 >>, << 2748, 2748 >>,
      << 2753, 2757 >>, << 2759, 2760 >>, << 2765, 2765 >>, << 2786, 2787 >>,
      << 2810, 2815 >>, << 2817, 2817 >>, << 2876, 2876 >>, << 2879, 2879 >>,
      << 2881, 2884 >>, << 2893, 2893 >>, << 2901, 2902 >>, << 2914, 2915 >>,
      << 2946, 2946 >>, << 3008, 3008 >>, << 3021, 3021 >>, << 3072, 3072 >>,
      << 3076, 3076 >>, << 3132, 3132 >>, << 3134, 3136 >>, << 3142, 3144 >>,
      << 3146, 3149 >>, << 3157, 3158 >>, << 3170, 3171 >>, << 3201, 3201 >>,
      << 3260, 3260 >>, << 3263, 3263 >>, << 3270, 3270 >>, << 3276, 3277 >>,
      << 3298, 3299 >>, << 3328, 3329 >>, << 3387, 3388 >>, << 3393, 3396 >>,
      << 3405, 3405 >>, << 3426, 3427 >>, << 3457, 3457 >>, << 3530, 3530 >>,
      << 3538, 3540 >>, << 3542, 3542 >>, << 3633, 3633 >>, << 3636, 3642 >>,
      << 3654, 3662 >>, << 3761, 3761 >>, << 3764, 3772 >>, << 3782, 3782 >>,
      << 3784, 3789 >>, << 3864, 3865 >>, << 3893, 3893 >>, << 3895, 3895 >>,
      << 3897, 3897 >>, << 3953, 3966 >>, << 3968, 3972 >>, << 3974, 3975 >>,
      << 3981, 3991 >>, << 3993, 4028 >>, << 4038, 4038 >>, << 4141, 4144 >>,
      << 4146, 4151 >>, << 4153, 4154 >>, << 4157, 4158 >>, << 4184, 4185 >>,
      << 4190, 4192 >>, << 4209, 4212 >>, << 4226, 4226 >>, << 4229, 4230 >>,
      << 4237, 4237 >>, << 4253, 4253 >>, << 4348, 4348 >>, << 4957, 4959 >>,
      << 5906, 5908 >>, << 5938, 5939 >>, << 5970, 5971 >>, << 6002, 6003 >>,
      << 6068, 6069 >>, << 6071, 6077 >>, << 6086, 6086 >>, << 6089, 6099 >>,
      << 6103, 6103 >>, << 6109, 6109 >>, << 6155, 6159 >>, << 6211, 6211 >>,
      << 6277, 6278 >>, << 6313, 6313 >>, << 6432, 6434 >>, << 6439, 6440 >>,
      << 6450, 6450 >>, << 6457, 6459 >>, << 6679, 6680 >>, << 6683, 6683 >>,
      << 6742, 6742 >>, << 6744, 6750 >>, << 6752, 6752 >>, << 6754, 6754 >>,
      << 6757, 6764 >>, << 6771, 6780 >>, << 6783, 6783 >>, << 6823, 6823 >>,
      << 6832, 6862 >>, << 6912, 6915 >>, << 6964, 6964 >>, << 6966, 6970 >>,
      << 6972, 6972 >>, << 6978, 6978 >>, << 7019, 7027 >>, << 7040, 7041 >>,
      << 7074, 7077 >>, << 7080, 7081 >>, << 7083, 7085 >>, << 7142, 7142 >>,
      << 7144, 7145 >>, << 7149, 7149 >>, << 7151, 7153 >>, << 7212, 7219 >>,
      << 7222, 7223 >>, << 7288, 7293 >>, << 7376, 7378 >>, << 7380, 7392 >>,
      << 7394, 7400 >>, << 7405, 7405 >>, << 7412, 7412 >>, << 7416, 7417 >>,
      << 7468, 7530 >>, << 7544, 7544 >>, << 7579, 7679 >>, << 8125, 8125 >>,
      << 8127, 8129 >>, << 8141, 8143 >>, << 8157, 8159 >>, << 8173, 8175 >>,
      << 8189, 8190 >>, << 8203, 8207 >>, << 8216, 8217 >>, << 8228, 8228 >>,
      << 8231, 8231 >>, << 8234, 8238 >>, << 8288, 8292 >>, << 8294, 8303 >>,
      << 8305, 8305 >>, << 8319, 8319 >>, << 8336, 8348 >>, << 8400, 8432 >>,
      << 11388, 11389 >>, << 11503, 11505 >>, << 11631, 11631 >>,
      << 11647, 11647 >>, << 11744, 11775 >>, << 11823, 11823 >>,
      << 12293, 12293 >>, << 12330, 12333 >>, << 12337, 12341 >>,
      << 12347, 12347 >>, << 12441, 12446 >>, << 12540, 12542 >>,
      << 40981, 40981 >>, << 42232, 42237 >>, << 42508, 42508 >>,
      << 42607, 42610 >>, << 42612, 42621 >>, << 42623, 42623 >>,
      << 42652, 42655 >>, << 42736, 42737 >>, << 42752, 42785 >>,
      << 42864, 42864 >>, << 42888, 42890 >>, << 42994, 42996 >>,
      << 43000, 43001 >>, << 43010, 43010 >>, << 43014, 43014 >>,
      << 43019, 43019 >>, << 43045, 43046 >>, << 43052, 43052 >>,
      << 43204, 43205 >>, << 43232, 43249 >>, << 43263, 43263 >>,
      << 43302, 43309 >>, << 43335, 43345 >>, << 43392, 43394 >>,
      << 43443, 43443 >>, << 43446, 43449 >>, << 43452, 43453 >>,
      << 43471, 43471 >>, << 43493, 43494 >>, << 43561, 43566 >>,
      << 43569, 43570 >>, << 43573, 43574 >>, << 43587, 43587 >>,
      << 43596, 43596 >>, << 43632, 43632 >>, << 43644, 43644 >>,
      << 43696, 43696 >>, << 43698, 43700 >>, << 43703, 43704 >>,
      << 43710, 43711 >>, << 43713, 43713 >>, << 43741, 43741 >>,
      << 43756, 43757 >>, << 43763, 43764 >>, << 43766, 43766 >>,
      << 43867, 43871 >>, << 43881, 43883 >>, << 44005, 44005 >>,
      << 44008, 44008 >>, << 44013, 44013 >>, << 64286, 64286 >>,
      << 64434, 64450 >>, << 65024, 65039 >>, << 65043, 65043 >>,
      << 65056, 65071 >>, << 65106, 65106 >>, << 65109, 65109 >>,
      << 65279, 65279 >>, << 65287, 65287 >>, << 65294, 65294 >>,
      << 65306, 65306 >>, << 65342, 65342 >>, << 65344, 65344 >>,
      << 65392, 65392 >>, << 65438, 65439 >>, << 65507, 65507 >>,
      << 65529, 65531 >>, << 66045, 66045 >>, << 66272, 66272 >>,
      << 66422, 66426 >>, << 67456, 67461 >>, << 67463, 67504 >>,
      << 67506, 67514 >>, << 68097, 68099 >>, << 68101, 68102 >>,
      << 68108, 68111 >>, << 68152, 68154 >>, << 68159, 68159 >>,
      << 68325, 68326 >>, << 68900, 68903 >>, << 69291, 69292 >>,
      << 69446, 69456 >>, << 69506, 69509 >>, << 69633, 69633 >>,
      << 69688, 69702 >>, << 69744, 69744 >>, << 69747, 69748 >>,
      << 69759, 69761 >>, << 69811, 69814 >>, << 69817, 69818 >>,
      << 69821, 69821 >>, << 69826, 69826 >>, << 69837, 69837 >>,
      << 69888, 69890 >>, << 69927, 69931 >>, << 69933, 69940 >>,
      << 70003, 70003 >>, << 70016, 70017 >>, << 70070, 70078 >>,
      << 70089, 70092 >>, << 70095, 70095 >>, << 70191, 70193 >>,
      << 70196, 70196 >>, << 70198, 70199 >>, << 70206, 70206 >>,
      << 70367, 70367 >>, << 70371, 70378 >>, << 70400, 70401 >>,
      << 70459, 70460 >>, << 70464, 70464 >>, << 70502, 70508 >>,
      << 70512, 70516 >>, << 70712, 70719 >>, << 70722, 70724 >>,
      << 70726, 70726 >>, << 70750, 70750 >>, << 70835, 70840 >>,
      << 70842, 70842 >>, << 70847, 70848 >>, << 70850, 70851 >>,
      << 71090, 71093 >>, << 71100, 71101 >>, << 71103, 71104 >>,
      << 71132, 71133 >>, << 71219, 71226 >>, << 71229, 71229 >>,
      << 71231, 71232 >>, << 71339, 71339 >>, << 71341, 71341 >>,
      << 71344, 71349 >>, << 71351, 71351 >>, << 71453, 71455 >>,
      << 71458, 71461 >>, << 71463, 71467 >>, << 71727, 71735 >>,
      << 71737, 71738 >>, << 71995, 71996 >>, << 71998, 71998 >>,
      << 72003, 72003 >>, << 72148, 72151 >>, << 72154, 72155 >>,
      << 72160, 72160 >>, << 72193, 72202 >>, << 72243, 72248 >>,
      << 72251, 72254 >>, << 72263, 72263 >>, << 72273, 72278 >>,
      << 72281, 72283 >>, << 72330, 72342 >>, << 72344, 72345 >>,
      << 72752, 72758 >>, << 72760, 72765 >>, << 72767, 72767 >>,
      << 72850, 72871 >>, << 72874, 72880 >>, << 72882, 72883 >>,
      << 72885, 72886 >>, << 73009, 73014 >>, << 73018, 73018 >>,
      << 73020, 73021 >>, << 73023, 73029 >>, << 73031, 73031 >>,
      << 73104, 73105 >>, << 73109, 73109 >>, << 73111, 73111 >>,
      << 73459, 73460 >>, << 78896, 78904 >>, << 92912, 92916 >>,
      << 92976, 92982 >>, << 92992, 92995 >>, << 94031, 94031 >>,
      << 94095, 94111 >>, << 94176, 94177 >>, << 94179, 94180 >>,
      << 110576, 110579 >>, << 110581, 110587 >>, << 110589, 110590 >>,
      << 113821, 113822 >>, << 113824, 113827 >>, << 118528, 118573 >>,
      << 118576, 118598 >>, << 119143, 119145 >>, << 119155, 119170 >>,
      << 119173, 119179 >>, << 119210, 119213 >>, << 119362, 119364 >>,
      << 121344, 121398 >>, << 121403, 121452 >>, << 121461, 121461 >>,
      << 121476, 121476 >>, << 121499, 121503 >>, << 121505, 121519 >>,
      << 122880, 122886 >>, << 122888, 122904 >>, << 122907, 122913 >>,
      << 122915, 122916 >>, << 122918, 122922 >>, << 123184, 123197 >>,
      << 123566, 123566 >>, << 123628, 123631 >>, << 125136, 125142 >>,
      << 125252, 125259 >>, << 127995, 127999 >>, << 917505, 917505 >>,
      << 917536, 917631 >>, << 917760, 917999 >> }

\* the cased characters among those that are not case-ignorable
CasedRanges ==
    { << 65, 90 >>, << 97, 122 >>, << 170, 170 >>, << 181, 181 >>,
      << 186, 186 >>, << 192, 214 >>, << 216, 246 >>, << 248, 442 >>,
      << 444, 447 >>, << 452, 659 >>, << 661, 687 >>, << 880, 883 >>,
      << 886, 887 >>, << 891, 893 >>, << 895, 895 >>, << 902, 902 >>,
      << 904, 906 >>, << 908, 908 >>, << 910, 929 >>, << 931, 1013 >>,
      << 1015, 1153 >>, << 1162, 1327 >>, << 1329, 1366 >>, << 1376, 1416 >>,
      << 4256, 4293 >>, << 4295, 4295 >>, << 4301, 4301 >>, << 4304, 4346 >>,
      << 4349, 4351 >>, << 5024, 5109 >>, << 5112, 5117 >>, << 7296, 7304 >>,
      << 7312, 7354 >>, << 7357, 7359 >>, << 7424, 7467 >>, << 7531, 7543 >>,
      << 7545, 7578 >>, << 7680, 7957 >>, << 7960, 7965 >>, << 7968, 8005 >>,
      << 8008, 8013 >>, << 8016, 8023 >>, << 8025, 8025 >>, << 8027, 8027 >>,
      << 8029, 8029 >>, << 8031, 8061 >>, << 8064, 8116 >>, << 8118, 8124 >>,
      << 8126, 8126 >>, << 8130, 8132 >>, << 8134, 8140 >>, << 8144, 8147 >>,
      << 8150, 8155 >>, << 8160, 8172 >>, << 8178, 8180 >>, << 8182, 8188 >>,
      << 8450, 8450 >>, << 8455, 8455 >>, << 8458, 8467 >>, << 8469, 8469 >>,
      << 8473, 8477 >>, << 8484, 8484 >>, << 8486, 8486 >>, << 8488, 8488 >>,
      << 8490, 8493 >>, << 8495, 8500 >>, << 8505, 8505 >>, << 8508, 8511 >>,
      << 8517, 8521 >>, << 8526, 8526 >>, << 8544, 8575 >>, << 8579, 8580 >>,
      << 9398, 9449 >>, << 11264, 11387 >>, << 11390, 11492 >>,
      << 11499, 11502 >>, << 11506, 11507 >>, << 11520, 11557 >>,
      << 11559, 11559 >>, << 11565, 11565 >>, << 42560, 42605 >>,
      << 42624, 42651 >>, << 42786, 42863 >>, << 42865, 42887 >>,
      << 42891, 42894 >>, << 42896, 42954 >>, << 42960, 42961 >>,
      << 42963, 42963 >>, << 42965, 42969 >>, << 42997, 42998 >>,
      << 43002, 43002 >>, << 43824, 43866 >>, << 43872, 43880 >>,
      << 43888, 43967 >>, << 64256, 64262 >>, << 64275, 64279 >>,
      << 65313, 65338 >>, << 65345, 65370 >>, << 66560, 66639 >>,
      << 66736, 66771 >>, << 66776, 66811 >>, << 66928, 66938 >>,
      << 66940, 66954 >>, << 66956, 66962 >>, << 66964, 66965 >>,
      << 66967, 66977 >>, << 66979, 66993 >>, << 66995, 67001 >>,
      << 67003, 67004 >>, << 68736, 68786 >>, << 68800, 68850 >>,
      << 71840, 71903 >>, << 93760, 93823 >>, << 119808, 119892 >>,
      << 119894, 119964 >>, << 119966, 119967 >>, << 119970, 119970 >>,
      << 119973, 119974 >>, << 119977, 119980 >>, << 119982, 119993 >>,
      << 119995, 119995 >>, << 119997, 120003 >>, << 120005, 120069 >>,
      << 120071, 120074 >>, << 120077, 120084 >>, << 120086, 120092 >>,
      << 120094, 120121 >>, << 120123, 120126 >>, << 120128, 120132 >>,
      << 120134, 120134 >>, << 120138, 120144 >>, << 120146, 120485 >>,
      << 120488, 120512 >>, << 120514, 120538 >>, << 120540, 120570 >>,
      << 120572, 120596 >>, << 120598, 120628 >>, << 120630, 120654 >>,
      << 120656, 120686 >>, << 120688, 120712 >>, << 120714, 120744 >>,
      << 120746, 120770 >>, << 120772, 120779 >>, << 122624, 122633 >>,
      << 122635, 122654 >>, << 125184, 125251 >>, << 127280, 127305 >>,
      << 127312, 127337 >>, << 127344, 127369 >> }

(***************************************************************************)
(* Python helpers.                                                         *)
(***************************************************************************)
\* a or b on strings: the first operand when it is truthy (non-empty)
PyOr(a, b) == IF a # << >> THEN a ELSE b

\* dict.get(key, default)
DictGet(d, key, default) == IF key \in DOMAIN d THEN d[key] ELSE default

Range(s) == { s[i] : i \in DOMAIN s }

\* "0" .. "9"
Digits == << 48, 49, 50, 51, 52, 53, 54, 55, 56, 57 >>

CapitalSigma == 931        \* U+03A3
SmallSigma == 963          \* U+03C3
FinalSmallSigma == 962     \* U+03C2
CapitalIDotAbove == 304    \* U+0130

\* the lowercase mapping of one character taken alone: usually one
\* character, two (i, combining dot above) for U+0130
LowerChar(c) ==
    IF c = CapitalIDotAbove THEN << 105, 775 >>
    ELSE IF \E r \in LowerRuns :
                r[1] <= c /\ c <= r[2] /\ (c - r[1]) % r[3] = 0
    THEN LET r == CHOOSE r \in LowerRuns :
                      r[1] <= c /\ c <= r[2] /\ (c - r[1]) % r[3] = 0
         IN  << c + r[4] >>
    ELSE << c >>

IsCaseIgnorable(c) == InRanges(c, CaseIgnorableRanges)
IsCased(c) == InRanges(c, CasedRanges)

\* the nearest character before s[j+1] / after s[j-1] that is not
\* case-ignorable exists and is cased
RECURSIVE CasedBefore(_, _)
CasedBefore(s, j) ==
    IF j < 1 THEN FALSE
    ELSE IF IsCaseIgnorable(s[j]) THEN CasedBefore(s, j - 1)
    ELSE IsCased(s[j])
RECURSIVE CasedAfter(_, _)
CasedAfter(s, j) ==
    IF j > Len(s) THEN FALSE
    ELSE IF IsCaseIgnorable(s[j]) THEN CasedAfter(s, j + 1)
    ELSE IsCased(s[j])

\* the lowercase of s[i] within s: a capital sigma that ends a word becomes
\* the final small sigma, every other character its own lowercase mapping
LowerAt(s, i) ==
    IF s[i] = CapitalSigma
    THEN IF CasedBefore(s, i - 1) /\ ~CasedAfter(s, i + 1)
         THEN << FinalSmallSigma >> ELSE << SmallSigma >>
    ELSE LowerChar(s[i])

\* str.lower()
RECURSIVE LowerFrom(_, _)
LowerFrom(s, i) ==
    IF i > Len(s) THEN << >> ELSE LowerAt(s, i) \o LowerFrom(s, i + 1)
Lower(s) == LowerFrom(s, 1)

\* needle in haystack (substring containment)
Contains(needle, haystack) ==
    \E i \in 0..(Len(haystack) - Len(needle)) :
        SubSeq(haystack, i + 1, i + Len(needle)) = needle

\* an integer printed in `width` digits, zero padded (strftime's %Y, %m, %d)
RECURSIVE ZeroPad(_, _)
ZeroPad(n, width) ==
    IF width = 0 THEN << >>
    ELSE ZeroPad(n \div 10, width - 1) \o << Digits[(n % 10) + 1] >>

\* date.strftime("%Y-%m-%d")
strftime(date) ==
    ZeroPad(date.year, 4) \o << 45 >> \o ZeroPad(date.month, 2)
        \o << 45 >> \o ZeroPad(date.day, 2)

(***************************************************************************)
(* The string literals of the source.                                      *)
(***************************************************************************)
L_Developer ==   \* " Developer"
    << 32, 68, 101, 118, 101, 108, 111, 112, 101, 114 >>
L_TechCompanyA ==   \* "Tech Company A"
    << 84, 101, 99, 104, 32, 67, 111, 109, 112, 97, 110, 121, 32, 65 >>
L_Remote ==   \* "Remote"
    << 82, 101, 109, 111, 116, 101 >>
L_LookingFor ==   \* "Looking for experienced "
    << 76, 111, 111, 107, 105, 110, 103, 32, 102, 111, 114, 32, 101, 120,
       112, 101, 114, 105, 101, 110, 99, 101, 100, 32 >>
L_developer ==   \* " developer"
    << 32, 100, 101, 118, 101, 108, 111, 112, 101, 114 >>
L_url1 ==   \* "https://example.com/job/1"
    << 104, 116, 116, 112, 115, 58, 47, 47, 101, 120, 97, 109, 112, 108, 101,
       46, 99, 111, 109, 47, 106, 111, 98, 47, 49 >>
L_date1 ==   \* "2025-06-01"
    << 50, 48, 50, 53, 45, 48, 54, 45, 48, 49 >>
L_python ==   \* "python"
    << 112, 121, 116, 104, 111, 110 >>
L_javascript ==   \* "javascript"
    << 106, 97, 118, 97, 115, 99, 114, 105, 112, 116 >>
L_Senior ==   \* "Senior "
    << 83, 101, 110, 105, 111, 114, 32 >>
L_StartupB ==   \* "Startup B"
    << 83, 116, 97, 114, 116, 117, 112, 32, 66 >>
L_SanFrancisco ==   \* "San Francisco, CA"
    << 83, 97, 110, 32, 70, 114, 97, 110, 99, 105, 115, 99, 111, 44, 32, 67,
       65 >>
L_SeniorDesc ==   \* " position with growth opportunities"
    << 32, 112, 111, 115, 105, 116, 105, 111, 110, 32, 119, 105, 116, 104,
       32, 103, 114, 111, 119, 116, 104, 32, 111, 112, 112, 111, 114, 116,
       117, 110, 105, 116, 105, 101, 115 >>
L_url2 ==   \* "https://example.com/job/2"
    << 104, 116, 116, 112, 115, 58, 47, 47, 101, 120, 97, 109, 112, 108, 101,
       46, 99, 111, 109, 47, 106, 111, 98, 47, 50 >>
L_date2 ==   \* "2025-06-02"
    << 50, 48, 50, 53, 45, 48, 54, 45, 48, 50 >>
L_react ==   \* "react"
    << 114, 101, 97, 99, 116 >>
L_nodejs ==   \* "node.js"
    << 110, 111, 100, 101, 46, 106, 115 >>
L_Specialist ==   \* " Specialist"
    << 32, 83, 112, 101, 99, 105, 97, 108, 105, 115, 116 >>
L_PublicCorp ==   \* "Public Corp"
    << 80, 117, 98, 108, 105, 99, 32, 67, 111, 114, 112 >>
L_NewYork ==   \* "New York, NY"
    << 78, 101, 119, 32, 89, 111, 114, 107, 44, 32, 78, 89 >>
L_WeAreHiring ==   \* "We are hiring for "
    << 87, 101, 32, 97, 114, 101, 32, 104, 105, 114, 105, 110, 103, 32, 102,
       111, 114, 32 >>
L_position ==   \* " position"
    << 32, 112, 111, 115, 105, 116, 105, 111, 110 >>
L_salary1 ==   \* "$70,000 - $90,000"
    << 36, 55, 48, 44, 48, 48, 48, 32, 45, 32, 36, 57, 48, 44, 48, 48, 48 >>
L_PublicJobs ==   \* "PublicJobs.com"
    << 80, 117, 98, 108, 105, 99, 74, 111, 98, 115, 46, 99, 111, 109 >>
L_Junior ==   \* "Junior "
    << 74, 117, 110, 105, 111, 114, 32 >>
L_OpenSourceInc ==   \* "Open Source Inc"
    << 79, 112, 101, 110, 32, 83, 111, 117, 114, 99, 101, 32, 73, 110, 99 >>
L_EntryLevel ==   \* "Entry level "
    << 69, 110, 116, 114, 121, 32, 108, 101, 118, 101, 108, 32 >>
L_opportunity ==   \* " opportunity"
    << 32, 111, 112, 112, 111, 114, 116, 117, 110, 105, 116, 121 >>
L_salary2 ==   \* "$50,000 - $65,000"
    << 36, 53, 48, 44, 48, 48, 48, 32, 45, 32, 36, 54, 53, 44, 48, 48, 48 >>
L_FreeJobBoard ==   \* "FreeJobBoard.org"
    << 70, 114, 101, 101, 74, 111, 98, 66, 111, 97, 114, 100, 46, 111, 114,
       103 >>
L_NotFound ==   \* "Not found"
    << 78, 111, 116, 32, 102, 111, 117, 110, 100 >>

(***************************************************************************)
(* The search functions: templated sample postings.                        *)
(***************************************************************************)
\* Variant: the location argument is not used; every posting keeps its
\* sample location.
search_github_jobs_location_ignored(query, location) ==
    << [ title       |-> query \o L_Developer,
         company     |-> L_TechCompanyA,
         location    |-> L_Remote,
         description |-> L_LookingFor \o query \o L_developer,
         url         |-> L_url1,
         posted_date |-> L_date1,
         skills      |-> << Lower(query), L_python, L_javascript >> ],
       [ title       |-> L_Senior \o query,
         company     |-> L_StartupB,
         location    |-> L_SanFrancisco,
         description |-> L_Senior \o query \o L_SeniorDesc,
         url         |-> L_url2,
         posted_date |-> L_date2,
         skills      |-> << Lower(query), L_react, L_nodejs >> ] >>

search_github_jobs(query, location) ==
    << [ title       |-> query \o L_Developer,
         company     |-> L_TechCompanyA,
         location    |-> PyOr(location, L_Remote),
         description |-> L_LookingFor \o query \o L_developer,
         url         |-> L_url1,
         posted_date |-> L_date1,
         skills      |-> << Lower(query), L_python, L_javascript >> ],
       [ title       |-> L_Senior \o query,
         company     |-> L_StartupB,
         location    |-> PyOr(location, L_SanFrancisco),
         description |-> L_Senior \o query \o L_SeniorDesc,
         url         |-> L_url2,
         posted_date |-> L_date2,
         skills      |-> << Lower(query), L_react, L_nodejs >> ] >>

\* datetime.date.today() is read once for each posting: today1 for the
\* first, today2 for the second
search_public_job_sites(query, location, today1, today2) ==
    << [ title       |-> query \o L_Specialist,
         company     |-> L_PublicCorp,
         location    |-> PyOr(location, L_NewYork),
         description |-> L_WeAreHiring \o query \o L_position,
         salary      |-> L_salary1,
         posted_date |-> strftime(today1),
         source      |-> L_PublicJobs ],
       [ title       |-> L_Junior \o query,
         company     |-> L_OpenSourceInc,
         location    |-> PyOr(location, L_Remote),
         description |-> L_EntryLevel \o query \o L_opportunity,
         salary      |-> L_salary2,
         posted_date |-> strftime(today2),
         source      |-> L_FreeJobBoard ] >>

\* the search the "Search Jobs" button runs, by the selected search method
MockDataDemo == "Mock Data (Demo)"
SearchTypes == { MockDataDemo, "Public Job Boards", "Company Websites" }

SearchJobs(stype, role, location, today1, today2) ==
    IF stype = MockDataDemo
    THEN search_github_jobs(role, location)
             \o search_public_job_sites(role, location, today1, today2)
    ELSE search_public_job_sites(role, location, today1, today2)

(***************************************************************************)
(* The job store: SQLite file job_search.db.                               *)
(*                                                                         *)
(* A database value is [tables, saved_jobs, seq].  Every function opens    *)
(* its own connection, and any of its steps may fail: `fault` names the    *)
(* step that raises during this call ("none" when the call runs through).  *)
(* A function body yields the database it leaves behind, the value it      *)
(* returns and the exception that escaped it ("" for none); the try/except *)
(* around the body is applied by Guarded.                                  *)
(***************************************************************************)
Absent == << >>
SavedJobsColumns ==
    << "id", "title", "company", "location", "description", "url", "saved_at" >>
ApplicationsColumns ==
    << "id", "job_title", "company", "status", "applied_date", "notes" >>

\* the steps of each function that can raise
InitDbFaults == { "none", "connect", "execute", "execute2", "commit" }
SaveJobFaults == { "none", "connect", "execute", "commit" }
GetSavedJobsFaults == { "none", "connect", "execute" }

\* the classes `except Exception` catches
ExceptionClasses ==
    { "sqlite3.OperationalError", "sqlite3.ProgrammingError", "AttributeError" }

\* Python's None, passed where a dict is expected
PyNone == [ NoneType |-> TRUE ]
IsDict(x) == x # PyNone

\* CREATE TABLE IF NOT EXISTS name (columns)
CreateTableIfNotExists(tbls, name, columns) ==
    IF tbls[name] = Absent THEN [ tbls EXCEPT ![name] = columns ] ELSE tbls

\* try: body / except Exception as e: st.error(...); return onError
Guarded(body, onError, notice) ==
    IF body.exc = "" THEN [ db |-> body.db, ret |-> body.ret,
                            raised |-> FALSE, notice |-> "" ]
    ELSE IF body.exc \in ExceptionClasses
    THEN [ db |-> body.db, ret |-> onError, raised |-> FALSE, notice |-> notice ]
    ELSE [ db |-> body.db, ret |-> onError, raised |-> TRUE, notice |-> "" ]

\* Variant: the schema is rebuilt on every start (DROP TABLE, then CREATE
\* TABLE) instead of created only when absent.
init_db_body_recreate(db, fault) ==
    IF fault \in { "connect", "execute" }
    THEN [ db |-> db, ret |-> FALSE, exc |-> "sqlite3.OperationalError" ]
    ELSE [ db |-> [ tables |-> [ saved_jobs |-> SavedJobsColumns,
                                 applications |-> ApplicationsColumns ],
                    saved_jobs |-> << >>, seq |-> 0 ],
           ret |-> fault = "none",
           exc |-> IF fault = "none" THEN "" ELSE "sqlite3.OperationalError" ]

\* the try block of init_db.  A CREATE TABLE runs outside any transaction,
\* so the first table stays created when the second statement fails.
init_db_body(db, fault) ==
    IF fault = "connect"
    THEN [ db |-> db, ret |-> FALSE, exc |-> "sqlite3.OperationalError" ]
    ELSE IF fault = "execute"
    THEN [ db |-> db, ret |-> FALSE, exc |-> "sqlite3.OperationalError" ]
    ELSE
      LET t1 == CreateTableIfNotExists(db.tables, "saved_jobs", SavedJobsColumns)
          t2 == CreateTableIfNotExists(t1, "applications", ApplicationsColumns)
      IN  IF fault = "execute2"
          THEN [ db |-> [ db EXCEPT !.tables = t1 ], ret |-> FALSE,
                 exc |-> "sqlite3.OperationalError" ]
          ELSE IF fault = "commit"
          THEN [ db |-> [ db EXCEPT !.tables = t2 ], ret |-> FALSE,
                 exc |-> "sqlite3.OperationalError" ]
          ELSE [ db |-> [ db EXCEPT !.tables = t2 ], ret |-> TRUE, exc |-> "" ]

init_db(db, fault) ==
    Guarded(init_db_body(db, fault), FALSE, "Database error")

\* the largest of a set of naturals, 0 for the empty set
SetMax(S) == IF S = {} THEN 0 ELSE CHOOSE m \in S : \A x \in S : x <= m

\* INTEGER PRIMARY KEY AUTOINCREMENT: one more than the largest id ever used
NextId(rows, seq) == SetMax({ rows[i].id : i \in DOMAIN rows } \cup { seq }) + 1

\* Variant: DEFAULT CURRENT_TIME, the time of day alone, which wraps around
\* (here with a day of two clock seconds).
DefaultSavedAt_time_of_day(now) == now % 2

\* saved_at TIMESTAMP DEFAULT CURRENT_TIMESTAMP
DefaultSavedAt(now) == now

\* Variant: INSERT OR IGNORE under a UNIQUE (title, company) constraint.
InsertSavedJob_unique(db, values, now) ==
    IF \E i \in DOMAIN db.saved_jobs :
           /\ db.saved_jobs[i].title = values[1]
           /\ db.saved_jobs[i].company = values[2]
    THEN db
    ELSE LET id == SetMax({ db.saved_jobs[i].id : i \in DOMAIN db.saved_jobs }
                              \cup { db.seq }) + 1
         IN  [ db EXCEPT
                 !.saved_jobs = Append(@, [ id          |-> id,
                                            title       |-> values[1],
                                            company     |-> values[2],
                                            location    |-> values[3],
                                            description |-> values[4],
                                            url         |-> values[5],
                                            saved_at    |-> now ]),
                 !.seq = id ]

\* INSERT INTO saved_jobs (title, company, location, description, url)
\* VALUES (?, ?, ?, ?, ?)
InsertSavedJob(db, values, now) ==
    LET id == NextId(db.saved_jobs, db.seq)
    IN  [ db EXCEPT
            !.saved_jobs = Append(@, [ id          |-> id,
                                       title       |-> values[1],
                                       company     |-> values[2],
                                       location    |-> values[3],
                                       description |-> values[4],
                                       url         |-> values[5],
                                       saved_at    |-> DefaultSavedAt(now) ]),
            !.seq = id ]

\* the parameters save_job binds: each field of the posting, '' when missing
BoundValues(job_data) ==
    << DictGet(job_data, "title", << >>),
       DictGet(job_data, "company", << >>),
       DictGet(job_data, "location", << >>),
       DictGet(job_data, "description", << >>),
       DictGet(job_data, "url", << >>) >>

\* Variant: the connection is in autocommit mode, so the inserted row stays
\* when the later commit raises.
save_job_body_autocommit(db, job_data, fault, now) ==
    IF fault = "connect"
    THEN [ db |-> db, ret |-> FALSE, exc |-> "sqlite3.OperationalError" ]
    ELSE IF ~IsDict(job_data)
    THEN [ db |-> db, ret |-> FALSE, exc |-> "AttributeError" ]
    ELSE IF db.tables["saved_jobs"] = Absent \/ fault = "execute"
    THEN [ db |-> db, ret |-> FALSE, exc |-> "sqlite3.OperationalError" ]
    ELSE LET done == [ db EXCEPT
                         !.saved_jobs = Append(@,
                             [ id          |-> db.seq + 1,
                               title       |-> DictGet(job_data, "title", << >>),
                               company     |-> DictGet(job_data, "company", << >>),
                               location    |-> DictGet(job_data, "location", << >>),
                               description |-> DictGet(job_data, "description", << >>),
                               url         |-> DictGet(job_data, "url", << >>),
                               saved_at    |-> now ]),
                         !.seq = db.seq + 1 ]
         IN  IF fault = "commit"
             THEN [ db |-> done, ret |-> FALSE, exc |-> "sqlite3.OperationalError" ]
             ELSE [ db |-> done, ret |-> TRUE, exc |-> "" ]

\* the try block of save_job.  The insert opens a transaction; when commit
\* raises, the connection is dropped uncommitted and the insert rolls back.
save_job_body(db, job_data, fault, now) ==
    IF fault = "connect"
    THEN [ db |-> db, ret |-> FALSE, exc |-> "sqlite3.OperationalError" ]
    ELSE IF ~IsDict(job_data)
    THEN [ db |-> db, ret |-> FALSE, exc |-> "AttributeError" ]
    ELSE IF db.tables["saved_jobs"] = Absent \/ fault = "execute"
    THEN [ db |-> db, ret |-> FALSE, exc |-> "sqlite3.OperationalError" ]
    ELSE IF fault = "commit"
    THEN [ db |-> db, ret |-> FALSE, exc |-> "sqlite3.OperationalError" ]
    ELSE [ db  |-> InsertSavedJob(db, BoundValues(job_data), now),
           ret |-> TRUE, exc |-> "" ]

save_job(db, job_data, fault, now) ==
    Guarded(save_job_body(db, job_data, fault, now), FALSE, "Error saving job")

\* SELECT *: a row as the tuple fetchall returns, in column order
RowTuple(r) ==
    << r.id, r.title, r.company, r.location, r.description, r.url, r.saved_at >>

\* ORDER BY saved_at DESC: later timestamps first; rows with equal saved_at
\* come out in rowid order, the order the table scan feeds the sorter.
OrderBySavedAtDesc(rows) ==
    LET Before(j, i) == \/ rows[j].saved_at > rows[i].saved_at
                        \/ rows[j].saved_at = rows[i].saved_at /\ j < i
        Rank(i) == Cardinality({ j \in DOMAIN rows : Before(j, i) }) + 1
    IN  [ k \in DOMAIN rows |-> rows[CHOOSE i \in DOMAIN rows : Rank(i) = k] ]

\* the try block of get_saved_jobs
get_saved_jobs_body(db, fault) ==
    IF fault = "connect"
    THEN [ db |-> db, ret |-> << >>, exc |-> "sqlite3.OperationalError" ]
    ELSE IF db.tables["saved_jobs"] = Absent \/ fault = "execute"
    THEN [ db |-> db, ret |-> << >>, exc |-> "sqlite3.OperationalError" ]
    ELSE LET sorted == OrderBySavedAtDesc(db.saved_jobs)
         IN  [ db  |-> db,
               ret |-> [ k \in DOMAIN sorted |-> RowTuple(sorted[k]) ],
               exc |-> "" ]

\* Variant: the body without its try/except.
get_saved_jobs_unguarded(db, fault) ==
    LET body == get_saved_jobs_body(db, fault)
    IN  [ db |-> body.db, ret |-> body.ret, raised |-> body.exc # "",
          notice |-> "" ]

get_saved_jobs(db, fault) ==
    Guarded(get_saved_jobs_body(db, fault), << >>, "Error retrieving jobs")

(***************************************************************************)
(* The store under any sequence of calls.                                  *)
(***************************************************************************)
DB == [ tables |-> tables, saved_jobs |-> saved_jobs, seq |-> sqlite_sequence ]

NoTables == [ saved_jobs |-> Absent, applications |-> Absent ]

\* the inputs of the calls: a posting with a url, one without, and None
StoreQuery == << 81, 65 >>     \* "QA"
StoreDate == [ year |-> 2025, month |-> 6, day |-> 3 ]
StoreInputs ==
    { search_github_jobs(StoreQuery, << >>)[1],
      search_public_job_sites(StoreQuery, << >>, StoreDate, StoreDate)[1],
      PyNone }

\* nothing drawn yet: the script has not run in this session
NoScreen == [ run |-> << >> ]

\* the widgets: not part of the store's behaviour
IdleSession ==
    /\ job_role = << >>
    /\ job_location = << >>
    /\ search_type = MockDataDemo
    /\ resume_input = << >>
    /\ screen = NoScreen

SessionUnchanged == UNCHANGED << widgetVars, screen >>

NoCall == [ op |-> "none", job_data |-> << >>, fault |-> "none", ret |-> FALSE,
            raised |-> FALSE, notice |-> "", before |-> << >>,
            justSaved |-> << >> ]

StoreInit ==
    /\ tables = NoTables
    /\ saved_jobs = << >>
    /\ sqlite_sequence = 0
    /\ clock = 0
    /\ nSaved = 0

Init ==
    /\ StoreInit
    /\ result = NoCall
    /\ IdleSession

\* what a call leaves in the database file
Commit(db) ==
    /\ tables' = db.tables
    /\ saved_jobs' = db.saved_jobs
    /\ sqlite_sequence' = db.seq

\* a call of init_db()
InitDb(fault) ==
    LET r == init_db(DB, fault)
    IN  /\ Commit(r.db)
        /\ result' = [ op |-> "init_db", job_data |-> << >>, fault |-> fault,
                       ret |-> r.ret, raised |-> r.raised, notice |-> r.notice,
                       before |-> saved_jobs, justSaved |-> << >> ]
        /\ UNCHANGED << clock, nSaved >>
        /\ SessionUnchanged

\* a call of save_job(job_data)
SaveJob(job_data, fault) ==
    LET r == save_job(DB, job_data, fault, clock)
    IN  /\ Len(saved_jobs) < MaxRows
        /\ Commit(r.db)
        /\ nSaved' = IF r.ret THEN nSaved + 1 ELSE nSaved
        /\ result' = [ op |-> "save_job", job_data |-> << job_data >>,
                       fault |-> fault, ret |-> r.ret, raised |-> r.raised,
                       notice |-> r.notice, before |-> saved_jobs,
                       justSaved |-> << >> ]
        /\ UNCHANGED clock
        /\ SessionUnchanged

\* a call of get_saved_jobs(); justSaved is the posting of the save_job call
\* that returned True immediately before it, if there was one
GetSavedJobs(fault) ==
    LET r == get_saved_jobs(DB, fault)
    IN  /\ Commit(r.db)
        /\ result' = [ op |-> "get_saved_jobs", job_data |-> << >>,
                       fault |-> fault, ret |-> r.ret, raised |-> r.raised,
                       notice |-> r.notice, before |-> saved_jobs,
                       justSaved |-> IF result.op = "save_job" /\ result.ret
                                     THEN result.job_data ELSE << >> ]
        /\ UNCHANGED << clock, nSaved >>
        /\ SessionUnchanged

\* the wall clock advances between calls
Tick ==
    /\ clock < MaxClock
    /\ clock' = clock + 1
    /\ UNCHANGED << tables, saved_jobs, sqlite_sequence, nSaved, result >>
    /\ SessionUnchanged

Next ==
    \/ \E fault \in InitDbFaults : InitDb(fault)
    \/ \E job_data \in StoreInputs, fault \in SaveJobFaults : SaveJob(job_data, fault)
    \/ \E fault \in GetSavedJobsFaults : GetSavedJobs(fault)
    \/ Tick

Spec == Init /\ [][Next]_vars

(***************************************************************************)
(* The search functions under any call.                                    *)
(***************************************************************************)
SearchQueries ==
    \* "QA", "Go", "ML", "\u212a8S" (KELVIN SIGN, whose lowercase is "k")
    { << 81, 65 >>, << 71, 111 >>, << 77, 76 >>, << 8490, 56, 83 >> }
SearchLocations ==
    \* "", "NYC", "Remote"
    { << >>, << 78, 89, 67 >>, << 82, 101, 109, 111, 116, 101 >> }
SearchDates ==
    { [ year |-> 2025, month |-> 6, day |-> 3 ],
      [ year |-> 2025, month |-> 12, day |-> 31 ],
      [ year |-> 2026, month |-> 1, day |-> 1 ] }

\* the two readings of the date within one call: the same day, or the day
\* before and the day after a midnight that passes in between
ClockReads ==
    { << d, d >> : d \in SearchDates }
        \cup { << [ year |-> 2025, month |-> 12, day |-> 31 ],
                  [ year |-> 2026, month |-> 1, day |-> 1 ] >> }

SearchCall(op, stype, query, location, today, jobs) ==
    [ op |-> op, stype |-> stype, query |-> query, location |-> location,
      today |-> today, ret |-> jobs ]

SearchInit ==
    /\ StoreInit
    /\ IdleSession
    /\ result = NoCall

SearchFrame == UNCHANGED << storeVars, widgetVars, screen >>

\* a call of search_github_jobs(query, location)
CallSearchGithubJobs(query, location) ==
    /\ result' = SearchCall("search_github_jobs", "", query, location,
                            << >>, search_github_jobs(query, location))
    /\ SearchFrame

\* a call of search_public_job_sites(query, location), reading the dates
\* today[1] and today[2]
CallSearchPublicJobSites(query, location, today) ==
    /\ result' = SearchCall("search_public_job_sites", "", query, location,
                            << strftime(today[1]), strftime(today[2]) >>,
                            search_public_job_sites(query, location,
                                                    today[1], today[2]))
    /\ SearchFrame

\* the search of the "Search Jobs" button, for a selected search method
CallSearchJobs(stype, query, location, today) ==
    /\ result' = SearchCall("search", stype, query, location,
                            << strftime(today[1]), strftime(today[2]) >>,
                            SearchJobs(stype, query, location,
                                       today[1], today[2]))
    /\ SearchFrame

SearchNext ==
    \/ \E q \in SearchQueries, l \in SearchLocations :
           CallSearchGithubJobs(q, l)
    \/ \E q \in SearchQueries, l \in SearchLocations, d \in ClockReads :
           CallSearchPublicJobSites(q, l, d)
    \/ \E t \in SearchTypes, q \in SearchQueries, l \in SearchLocations,
          d \in ClockReads :
           CallSearchJobs(t, q, l, d)

SpecSearch == SearchInit /\ [][SearchNext]_vars

(***************************************************************************)
(* Regular expressions, matched as Python's re module matches them: a      *)
(* backtracking search that tries, at each item, the longest repetition    *)
(* first (greedy) and an optional group before its absence, and reports    *)
(* the first alternative that lets the rest of the pattern match.          *)
(*                                                                         *)
(* A pattern is a sequence of items:                                       *)
(*   [kind "set"]      a character class repeated min..max times           *)
(*                     (any number of times from min when not bounded)     *)
(*   [kind "boundary"] \b                                                  *)
(*   [kind "optgroup"] ( items )?  -- the pattern's capturing group        *)
(*   [kind "endgroup"] the close of the group opened at `start`            *)
(***************************************************************************)
Letters == (65..90) \cup (97..122)                          \* A-Za-z
AsciiDigits == 48..57                                        \* 0-9
DigitChars == UNION { r[1]..r[2] : r \in DecimalRanges }     \* \d
\* \s, and what split() and strip() cut at
Whitespace == UNION { r[1]..r[2] : r \in SpaceRanges }
WordChars == UNION { r[1]..r[2] : r \in WordRanges }         \* \w

Rep(chars, min, max) ==
    [ kind |-> "set", chars |-> chars, min |-> min, max |-> max, bounded |-> TRUE ]
AtLeast(chars, min) ==
    [ kind |-> "set", chars |-> chars, min |-> min, max |-> min, bounded |-> FALSE ]
Opt(chars) == Rep(chars, 0, 1)
Boundary == [ kind |-> "boundary" ]
OptGroup(items) == [ kind |-> "optgroup", items |-> items ]
EndGroup(start) == [ kind |-> "endgroup", start |-> start ]

\* \b at position pos (between text[pos-1] and text[pos])
IsBoundary(text, pos) ==
    Cardinality({ p \in { pos - 1, pos } \cap DOMAIN text :
                    text[p] \in WordChars }) = 1

\* how many characters from pos on belong to chars, at most limit
RECURSIVE RunLength(_, _, _, _)
RunLength(text, pos, chars, limit) ==
    IF limit = 0 \/ pos > Len(text) \/ text[pos] \notin chars THEN 0
    ELSE 1 + RunLength(text, pos + 1, chars, limit - 1)

NoMatch == [ ok |-> FALSE, end |-> 0, group |-> << >> ]

RECURSIVE Match(_, _, _, _), MatchRepeat(_, _, _, _, _, _)
\* the first way, in backtracking order, to match items at pos
Match(items, text, pos, group) ==
    IF items = << >> THEN [ ok |-> TRUE, end |-> pos, group |-> group ]
    ELSE LET it == Head(items)
             rest == Tail(items)
         IN  CASE it.kind = "set" ->
                    MatchRepeat(it, rest, text, pos, group,
                        RunLength(text, pos, it.chars,
                                  IF it.bounded THEN it.max ELSE Len(text)))
               [] it.kind = "boundary" ->
                    IF IsBoundary(text, pos) THEN Match(rest, text, pos, group)
                    ELSE NoMatch
               [] it.kind = "optgroup" ->
                    LET with == Match(it.items \o << EndGroup(pos) >> \o rest,
                                      text, pos, group)
                    IN  IF with.ok THEN with ELSE Match(rest, text, pos, group)
               [] it.kind = "endgroup" ->
                    Match(rest, text, pos, SubSeq(text, it.start, pos - 1))

\* item `it` repeated n times, then n-1, ... down to its minimum
MatchRepeat(it, rest, text, pos, group, n) ==
    IF n < it.min THEN NoMatch
    ELSE LET r == Match(rest, text, pos + n, group)
         IN  IF r.ok THEN r ELSE MatchRepeat(it, rest, text, pos, group, n - 1)

\* the leftmost match starting at or after `start`
RECURSIVE Search(_, _, _)
Search(pattern, text, start) ==
    IF start > Len(text) + 1 THEN [ ok |-> FALSE ]
    ELSE LET r == Match(pattern, text, start, << >>)
         IN  IF r.ok THEN [ ok |-> TRUE, start |-> start, end |-> r.end,
                            group |-> r.group ]
             ELSE Search(pattern, text, start + 1)

HasGroup(pattern) == \E i \in DOMAIN pattern : pattern[i].kind = "optgroup"

\* re.findall(pattern, text): the non-overlapping matches left to right;
\* for a pattern with one group the list holds the group's text of each
\* match ('' when the group took no part), otherwise the whole match
RECURSIVE FindAllFrom(_, _, _)
FindAllFrom(pattern, text, start) ==
    LET m == Search(pattern, text, start)
    IN  IF ~m.ok THEN << >>
        ELSE << IF HasGroup(pattern) THEN m.group
                ELSE SubSeq(text, m.start, m.end - 1) >>
             \o FindAllFrom(pattern, text,
                            IF m.end > m.start THEN m.end ELSE m.end + 1)

FindAll(pattern, text) == FindAllFrom(pattern, text, 1)

(***************************************************************************)
(* The resume analyzer.                                                    *)
(***************************************************************************)
\* 'python', 'javascript', 'java', 'react', 'node.js', 'sql',
\* 'html', 'css', 'aws', 'docker', 'kubernetes', 'git',
\* 'machine learning', 'data science', 'ui/ux', 'design'
skills_keywords ==
    << << 112, 121, 116, 104, 111, 110 >>,
       << 106, 97, 118, 97, 115, 99, 114, 105, 112, 116 >>,
       << 106, 97, 118, 97 >>,
       << 114, 101, 97, 99, 116 >>,
       << 110, 111, 100, 101, 46, 106, 115 >>,
       << 115, 113, 108 >>,
       << 104, 116, 109, 108 >>,
       << 99, 115, 115 >>,
       << 97, 119, 115 >>,
       << 100, 111, 99, 107, 101, 114 >>,
       << 107, 117, 98, 101, 114, 110, 101, 116, 101, 115 >>,
       << 103, 105, 116 >>,
       << 109, 97, 99, 104, 105, 110, 101, 32, 108, 101, 97, 114, 110, 105, 110, 103 >>,
       << 100, 97, 116, 97, 32, 115, 99, 105, 101, 110, 99, 101 >>,
       << 117, 105, 47, 117, 120 >>,
       << 100, 101, 115, 105, 103, 110 >> >>

\* r'\b[A-Za-z0-9._%+-]+@[A-Za-z0-9.-]+\.[A-Z|a-z]{2,}\b'
email_pattern ==
    << Boundary,
       AtLeast(Letters \cup AsciiDigits \cup { 46, 95, 37, 43, 45 }, 1),  \* ._%+-
       Rep({ 64 }, 1, 1),                                                \* @
       AtLeast(Letters \cup AsciiDigits \cup { 46, 45 }, 1),              \* .-
       Rep({ 46 }, 1, 1),                                                \* \.
       AtLeast(Letters \cup { 124 }, 2),                                 \* A-Z | a-z
       Boundary >>

\* [-.\s]
Separators == { 45, 46 } \cup Whitespace     \* - .

\* r'(\+?\d{1,3}[-.\s]?)?\(?\d{3}\)?[-.\s]?\d{3}[-.\s]?\d{4}'
phone_pattern ==
    << OptGroup(<< Opt({ 43 }), Rep(DigitChars, 1, 3), Opt(Separators) >>),  \* +
       Opt({ 40 }), Rep(DigitChars, 3, 3), Opt({ 41 }),                      \* ( )
       Opt(Separators), Rep(DigitChars, 3, 3),
       Opt(Separators), Rep(DigitChars, 4, 4) >>

\* Variant: the keywords are looked up in the text as written, without
\* lowering it first.
FoundSkills_case_sensitive(resume_text) ==
    SelectSeq(skills_keywords, LAMBDA skill : Contains(skill, resume_text))

\* text_lower = resume_text.lower()
\* [skill for skill in skills_keywords if skill in text_lower]
FoundSkills(resume_text) ==
    LET text_lower == Lower(resume_text)
    IN  SelectSeq(skills_keywords, LAMBDA skill : Contains(skill, text_lower))

\* len(resume_text.split()): the maximal runs of non-whitespace characters
WordCount(text) ==
    Cardinality({ i \in DOMAIN text :
                    /\ text[i] \notin Whitespace
                    /\ i = 1 \/ text[i - 1] \in Whitespace })

\* the try block of simple_resume_parser, for a str argument (nothing in it
\* raises then)
simple_resume_parser(resume_text) ==
    LET found_skills == FoundSkills(resume_text)
        emails == FindAll(email_pattern, resume_text)
        phones == FindAll(phone_pattern, resume_text)
    IN  [ skills      |-> found_skills,
          email       |-> IF emails # << >> THEN emails[1] ELSE L_NotFound,
          phone       |-> IF phones # << >> THEN phones[1] ELSE L_NotFound,
          text_length |-> Len(resume_text),
          word_count  |-> WordCount(resume_text) ]

(***************************************************************************)
(* The analyzer on any text put together from a few fragments.             *)
(***************************************************************************)
\* "(555) ", "555-", "123-4567", "+1 ", "SQL ", "JavaScript", "a@b.io",
\* "\u0665\u0665\u0665-" (555- in Arabic-Indic digits, which \d takes),
\* "DOC\u212aER" (with the Kelvin sign, lowered to "k"),
\* "\x0b" (vertical tab, whitespace), "\xe9" (e acute, a word character)
ResumePieces ==
    { << 40, 53, 53, 53, 41, 32 >>,
      << 53, 53, 53, 45 >>,
      << 49, 50, 51, 45, 52, 53, 54, 55 >>,
      << 43, 49, 32 >>,
      << 83, 81, 76, 32 >>,
      << 74, 97, 118, 97, 83, 99, 114, 105, 112, 116 >>,
      << 97, 64, 98, 46, 105, 111 >>,
      << 1637, 1637, 1637, 45 >>,
      << 68, 79, 67, 8490, 69, 82 >>,
      << 11 >>,
      << 233 >> }

\* the texts of at most n fragments
RECURSIVE TextsOf(_)
TextsOf(n) ==
    IF n = 0 THEN { << >> }
    ELSE LET shorter == TextsOf(n - 1)
         IN  shorter \cup { t \o p : t \in shorter, p \in ResumePieces }

ParserInit ==
    /\ StoreInit
    /\ job_role = << >>
    /\ job_location = << >>
    /\ search_type = MockDataDemo
    /\ screen = NoScreen
    /\ result = NoCall
    /\ resume_input \in TextsOf(MaxPieces)

\* a call of simple_resume_parser(resume_input)
Analyze ==
    /\ result.op = "none"
    /\ result' = [ op |-> "simple_resume_parser", text |-> resume_input,
                   ret |-> simple_resume_parser(resume_input) ]
    /\ UNCHANGED << storeVars, widgetVars, screen >>

ParserNext == Analyze

SpecParser == ParserInit /\ [][ParserNext]_vars

(***************************************************************************)
(* The script.  Streamlit runs it top to bottom when the page is opened    *)
(* and again on every widget interaction; st.button(key) is True only in   *)
(* the run caused by a click on that button.  `pressed` is the button      *)
(* whose click caused the run: << "search" >>, << "analyze" >>,            *)
(* << "save", i >>, or << "rerun" >> when no button did.                   *)
(***************************************************************************)
\* key=f"save_{i}"
SaveKey(i) == << "save", i >>

\* str.strip()
RECURSIVE LStrip(_)
LStrip(s) ==
    IF s # << >> /\ Head(s) \in Whitespace THEN LStrip(Tail(s)) ELSE s
RECURSIVE RStrip(_)
RStrip(s) ==
    IF s # << >> /\ s[Len(s)] \in Whitespace
    THEN RStrip(SubSeq(s, 1, Len(s) - 1)) ELSE s
Strip(s) == RStrip(LStrip(s))

\* for i, job in enumerate(jobs): ... if st.button("Save Job", key=f"save_{i}"):
\*     if save_job(job): st.success("Job saved!")
\* from the posting at index i (0-based) on; yields the database and the
\* indices whose save succeeded
RECURSIVE SaveButtons(_, _, _, _, _)
SaveButtons(db, jobs, i, pressed, now) ==
    IF i >= Len(jobs) THEN [ db |-> db, saved |-> { } ]
    ELSE IF pressed = SaveKey(i)
    THEN LET r == save_job(db, jobs[i + 1], "none", now)
             rest == SaveButtons(r.db, jobs, i + 1, pressed, now)
         IN  [ db |-> rest.db,
               saved |-> IF r.ret THEN rest.saved \cup { i } ELSE rest.saved ]
    ELSE SaveButtons(db, jobs, i + 1, pressed, now)

(***************************************************************************)
(* A session: the user opens the page, fills widgets and clicks buttons.   *)
(***************************************************************************)
UIRoles == { << >>, << 81, 65 >> }          \* "", "QA"
UILocations == { << >>, << 78, 89, 67 >> }   \* "", "NYC"
\* "", " \x0b" (blank: a space and a vertical tab), "SQL 555-123-4567"
UIResumes == { << >>, << 32, 11 >>,
               << 83, 81, 76, 32, 53, 53, 53, 45, 49, 50, 51, 45,
                  52, 53, 54, 55 >> }
UIToday == [ year |-> 2025, month |-> 6, day |-> 3 ]

UIInit ==
    /\ StoreInit
    /\ result = NoCall
    /\ IdleSession

\* One run of the script, top to bottom, with the widget values as they are
\* after the interaction that caused it and a store whose every operation
\* succeeds.  Each statement's outcome is bound before the next one runs.
Rerun(role, location, stype, resume, pressed, clicked) ==
    LET searching == pressed = << "search" >>
        analyzing == pressed = << "analyze" >>
    IN  \E started \in { init_db(DB, "none") } :
        \E jobs \in { IF searching /\ role # << >>
                      THEN SearchJobs(stype, role, location, UIToday, UIToday)
                      ELSE << >> } :
        \E tab1 \in { SaveButtons(started.db, jobs, 0, pressed, clock) } :
        \E analysis \in { IF analyzing /\ Strip(resume) # << >>
                          THEN << simple_resume_parser(resume) >>
                          ELSE << >> } :
        \E tab3 \in { get_saved_jobs(tab1.db, "none") } :
        \E tab4 \in { get_saved_jobs(tab3.db, "none") } :
            /\ Commit(tab4.db)
            /\ nSaved' = nSaved + Cardinality(tab1.saved)
            /\ screen' = [ run          |-> pressed,
                           warning      |-> IF searching /\ role = << >>
                                            THEN "Please enter a job role."
                                            ELSE IF analyzing /\ Strip(resume) = << >>
                                            THEN "Please paste your resume text."
                                            ELSE "",
                           save_buttons |-> jobs,
                           job_saved    |-> tab1.saved,
                           analysis     |-> analysis,
                           saved_jobs   |-> tab3.ret,
                           saved_count  |-> Len(tab4.ret),
                           clicked      |-> clicked ]
            /\ job_role' = role
            /\ job_location' = location
            /\ search_type' = stype
            /\ resume_input' = resume
            /\ UNCHANGED << clock, result >>

\* the page is opened: the first run
OpenPage ==
    /\ screen = NoScreen
    /\ Rerun(job_role, job_location, search_type, resume_input, << "rerun" >>, << >>)

EnterJobRole(role) ==
    /\ screen # NoScreen
    /\ role # job_role
    /\ Rerun(role, job_location, search_type, resume_input, << "rerun" >>, << >>)

EnterLocation(location) ==
    /\ screen # NoScreen
    /\ location # job_location
    /\ Rerun(job_role, location, search_type, resume_input, << "rerun" >>, << >>)

SelectSearchType(stype) ==
    /\ screen # NoScreen
    /\ stype # search_type
    /\ Rerun(job_role, job_location, stype, resume_input, << "rerun" >>, << >>)

EnterResume(resume) ==
    /\ screen # NoScreen
    /\ resume # resume_input
    /\ Rerun(job_role, job_location, search_type, resume, << "rerun" >>, << >>)

ClickSearch ==
    /\ screen # NoScreen
    /\ Rerun(job_role, job_location, search_type, resume_input, << "search" >>, << >>)

ClickAnalyze ==
    /\ screen # NoScreen
    /\ Rerun(job_role, job_location, search_type, resume_input, << "analyze" >>, << >>)

\* a click on the "Save Job" button drawn for the posting at index i
ClickSave(i) ==
    /\ screen # NoScreen
    /\ i < Len(screen.save_buttons)
    /\ Len(saved_jobs) < MaxRows
    /\ Rerun(job_role, job_location, search_type, resume_input, SaveKey(i),
             << screen.save_buttons[i + 1] >>)

UINext ==
    \/ OpenPage
    \/ \E role \in UIRoles : EnterJobRole(role)
    \/ \E location \in UILocations : EnterLocation(location)
    \/ \E stype \in SearchTypes : SelectSearchType(stype)
    \/ \E resume \in UIResumes : EnterResume(resume)
    \/ ClickSearch
    \/ ClickAnalyze
    \/ \E i \in 0..3 : ClickSave(i)

SpecUI == UIInit /\ [][UINext]_vars

(***************************************************************************)
(* Properties of the job store.                                            *)
(***************************************************************************)
\* the last call was a get_saved_jobs that returned the rows it fetched
ReadSucceeded == result.op = "get_saved_jobs" /\ result.notice = "" /\ ~result.raised

\* C1: a successful save_job(posting) immediately followed by
\* get_saved_jobs() (one that read the store without error) returns a list
\* whose first element is the row just inserted: the newest id, the
\* posting's five text fields, and a store-assigned saved_at.  This must
\* hold also when earlier rows were saved within the same clock second.
C1_SavedPostingIsFirst ==
    (ReadSucceeded /\ result.justSaved # << >>) =>
        /\ Len(result.ret) >= 1
        /\ result.ret[1][1] = sqlite_sequence
        /\ SubSeq(result.ret[1], 2, 6) = BoundValues(result.justSaved[1])
        /\ result.ret[1][7] \in 0..clock

\* C2: save_job never raises, returns True exactly when one row was
\* appended to saved_jobs and committed, and otherwise returns False with
\* saved_jobs exactly as it was before the call, whatever the input and the
\* store condition (unopenable, table absent, write failure).
C2_SaveJobTotalAndAtomic ==
    result.op = "save_job" =>
        /\ ~result.raised
        /\ result.ret \in BOOLEAN
        /\ result.ret <=>
               /\ Len(saved_jobs) = Len(result.before) + 1
               /\ SubSeq(saved_jobs, 1, Len(result.before)) = result.before
        /\ ~result.ret => saved_jobs = result.before

\* C2 witness: a save_job whose commit failed on a store that holds rows
C2_Witness ==
    /\ result.op = "save_job"
    /\ result.fault = "commit"
    /\ ~result.ret
    /\ result.job_data # << PyNone >>
    /\ saved_jobs # << >>

\* C3: saved_at is non-decreasing in id over the rows of saved_jobs.
C3_SavedAtMonotoneInId ==
    \A i, j \in DOMAIN saved_jobs :
        saved_jobs[i].id < saved_jobs[j].id =>
            saved_jobs[i].saved_at <= saved_jobs[j].saved_at

\* C3 witness: rows saved within one second, then a row saved later
C3_Witness ==
    /\ Len(saved_jobs) >= 3
    /\ saved_jobs[1].saved_at = saved_jobs[2].saved_at
    /\ saved_jobs[2].saved_at < saved_jobs[3].saved_at

\* C4: the store is append-only.  No step removes or changes a row (its
\* id, its five text fields, its saved_at), no step changes the schema of a
\* table that exists, and a step that ends a get_saved_jobs call leaves the
\* whole database unchanged; init_db on a store holding rows is such a step.
C4_AppendOnly ==
    [][ /\ \A i \in DOMAIN saved_jobs :
               i \in DOMAIN saved_jobs' /\ saved_jobs'[i] = saved_jobs[i]
        /\ \A t \in DOMAIN tables :
               tables[t] # Absent => tables'[t] = tables[t]
        /\ result'.op = "get_saved_jobs" =>
               << tables, saved_jobs, sqlite_sequence >>' =
                   << tables, saved_jobs, sqlite_sequence >>
      ]_vars

\* C4 witness: init_db has run again, successfully, on a store holding rows
C4_Witness ==
    /\ result.op = "init_db"
    /\ result.ret
    /\ result.before # << >>
    /\ saved_jobs = result.before

\* C5 as stated: the number of rows get_saved_jobs returns always equals
\* the number of save_job calls that have returned True.
C5_ListCountAlwaysEqualsSaves ==
    result.op = "get_saved_jobs" => Len(result.ret) = nSaved

\* C5 amended: every successful save_job adds exactly one row, with an id
\* greater than every id already in the table, also when a row with the
\* same five fields exists; the table holds as many rows as save_job calls
\* have returned True, and a get_saved_jobs that reads the store without
\* error returns that many rows.
C5_DuplicatesKept ==
    /\ Len(saved_jobs) = nSaved
    /\ \A i, j \in DOMAIN saved_jobs : i < j => saved_jobs[i].id < saved_jobs[j].id
    /\ (result.op = "save_job" /\ result.ret) =>
           /\ Len(saved_jobs) = Len(result.before) + 1
           /\ \A i \in DOMAIN result.before :
                  result.before[i].id < saved_jobs[Len(saved_jobs)].id
    /\ ReadSucceeded => Len(result.ret) = nSaved

\* C5 witness: a save_job that returned True for a posting already stored
C5_Witness ==
    /\ result.op = "save_job"
    /\ result.ret
    /\ Len(saved_jobs) >= 2
    /\ \E i \in 1..(Len(saved_jobs) - 1) :
           LET a == saved_jobs[i]
               b == saved_jobs[Len(saved_jobs)]
           IN  << a.title, a.company, a.location, a.description, a.url >> =
               << b.title, b.company, b.location, b.description, b.url >>

\* C6: get_saved_jobs never raises; it returns the empty list on a store
\* holding no rows, and also whenever the store cannot be opened or read
\* (a failing connect or query, or the saved_jobs table absent).
C6_GetSavedJobsTotal ==
    result.op = "get_saved_jobs" =>
        /\ ~result.raised
        /\ result.before = << >> => result.ret = << >>
        /\ (result.fault # "none" \/ tables["saved_jobs"] = Absent) =>
               result.ret = << >>

\* C6 witness: the store could not be opened although it holds rows
C6_Witness ==
    /\ result.op = "get_saved_jobs"
    /\ result.fault = "connect"
    /\ saved_jobs # << >>
    /\ result.ret = << >>

(***************************************************************************)
(* Properties of the search functions.                                     *)
(***************************************************************************)
IsSearchCall == result.op \in { "search_github_jobs", "search_public_job_sites" }

Locations(jobs) == [ i \in DOMAIN jobs |-> jobs[i].location ]

\* C9 as stated: every posting returned by a search call made with the
\* empty location has location "Remote".
C9_UnspecifiedLocationIsRemote ==
    (IsSearchCall /\ result.location = << >>) =>
        \A i \in DOMAIN result.ret : result.ret[i].location = L_Remote

\* C9 amended: with the empty location each posting carries the sample
\* location of its own template: "Remote" and "San Francisco, CA" for the
\* two postings of search_github_jobs, "New York, NY" and "Remote" for the
\* two of search_public_job_sites; with a non-empty location every
\* returned posting carries that location.
C9_LocationPerTemplate ==
    IsSearchCall =>
        IF result.location = << >>
        THEN Locations(result.ret) =
                 IF result.op = "search_github_jobs"
                 THEN << L_Remote, L_SanFrancisco >>
                 ELSE << L_NewYork, L_Remote >>
        ELSE /\ result.ret # << >>
             /\ \A i \in DOMAIN result.ret :
                    result.ret[i].location = result.location

\* C9 witness: search_github_jobs called with the empty location returned
\* its two postings, the second located in San Francisco
C9_Witness ==
    /\ result.op = "search_github_jobs"
    /\ result.location = << >>
    /\ Len(result.ret) = 2
    /\ result.ret[2].location = L_SanFrancisco

(***************************************************************************)
(* Properties of the resume analyzer.                                      *)
(***************************************************************************)
IsAnalysis == result.op = "simple_resume_parser"

\* C7: the phone field is the first phone number in the text matched by the
\* phone pattern, the whole matched number, and is "Not found" exactly when
\* the pattern matches nowhere in the text.
C7_PhoneIsFirstWholeMatch ==
    IsAnalysis =>
        LET m == Search(phone_pattern, result.text, 1)
        IN  /\ m.ok => result.ret.phone = SubSeq(result.text, m.start, m.end - 1)
            /\ ~m.ok <=> result.ret.phone = L_NotFound

\* term occurs in text at offset i, compared without regard to case
OccursAt(term, text, i) ==
    /\ i + Len(term) <= Len(text)
    /\ \A j \in DOMAIN term : LowerChar(text[i + j]) = << term[j] >>

OccursIn(term, text) == \E i \in 0..Len(text) : OccursAt(term, text, i)

\* C8: the skills list is exactly the vocabulary terms that occur in the
\* text as case-insensitive substrings, once each and in vocabulary order
\* whatever their order in the text; "java" is listed whenever "javascript"
\* occurs, and the list is empty when no term occurs.
C8_SkillsInVocabularyOrder ==
    IsAnalysis =>
        LET skills == result.ret.skills
            Listed(term) == \E i \in DOMAIN skills : skills[i] = term
            Index(term) == CHOOSE k \in DOMAIN skills_keywords :
                               skills_keywords[k] = term
        IN  /\ \A k \in DOMAIN skills_keywords :
                   Listed(skills_keywords[k]) <=>
                       OccursIn(skills_keywords[k], result.text)
            /\ \A i \in DOMAIN skills : Listed(skills[i]) /\
                   \E k \in DOMAIN skills_keywords : skills_keywords[k] = skills[i]
            /\ \A i, j \in DOMAIN skills :
                   i < j => Index(skills[i]) < Index(skills[j])
            /\ OccursIn(L_javascript, result.text) =>
                   Listed(<< 106, 97, 118, 97 >>)      \* "java"
            /\ (\A k \in DOMAIN skills_keywords :
                    ~OccursIn(skills_keywords[k], result.text)) => skills = << >>

\* C8 witness: "SQL" precedes "JavaScript" in the text, in capitals, and the
\* list gives javascript, java, sql
C8_Witness ==
    /\ IsAnalysis
    /\ result.text = << 83, 81, 76, 32, 74, 97, 118, 97, 83, 99, 114,
                        105, 112, 116 >>
    /\ result.ret.skills = << L_javascript, << 106, 97, 118, 97 >>,
                              << 115, 113, 108 >> >>

(***************************************************************************)
(* Properties of the session.                                              *)
(***************************************************************************)
\* C10: after a search with a non-empty job role, the run caused by a click
\* on the "Save Job" button of a listed posting calls save_job with that
\* posting, so the posting is among the rows get_saved_jobs returns (the
\* rows the Saved Jobs tab lists in that run).
C10_ClickedPostingIsSaved ==
    (screen # NoScreen /\ screen.clicked # << >>) =>
        \E k \in DOMAIN screen.saved_jobs :
            SubSeq(screen.saved_jobs[k], 2, 6) = BoundValues(screen.clicked[1])
=============================================================================
